---------------------------- MODULE Spec2Model ----------------------------
(***************************************************************************)
(* Frame synthesis and timeline stitching of the whiteboard animation      *)
(* tool: the reveal animation, the pan-zoom animation, the multi-image     *)
(* timelines of video_writer.py and the post-processing steps (write,      *)
(* transcode, audio mux, upload, temp-file cleanup).                       *)
(*                                                                         *)
(* Numbers.  Python floats are modelled as exact rationals.  A duration is *)
(* an integer number of ticks of 5 ms (TicksPerSecond ticks make a second),*)
(* so that seconds * 0.5 is again a whole number of ticks; a zoom level    *)
(* and a pan ratio are integer percentages.  int() truncates toward zero.  *)
(***************************************************************************)
EXTENDS Integers, Sequences, FiniteSets, TLC

VARIABLES
    \* create_single_reveal_animation called on its own
    reveal_duration, total_duration, frames, anim_pc,
    \* create_multi_reveal_video / create_pan_zoom_video
    image_configs, pan_direction, idx, all_frames, cover_image, pc,
    writer_open, encoded, files, temp_files, orig_video, mux_outcome,
    posix, transcode_outcome, upload_outcome, output_path, upload_arg,
    s3_url, exited,
    \* create_pan_zoom_animation called on its own
    pz, frame_idx, crops,
    \* _get_current_segment called on its own
    segments, t_sec, current, cap_pc,
    \* alignment_to_word_segments called on its own
    alignment, word_segments, align_pc,
    \* the reveal loop of create_single_reveal_animation: _calculate_cursor_alpha per frame
    reveal_frames, cursor_frame_idx, cursor_alphas,
    \* _draw_cursor_on_frame called on its own
    draw_args, frame, draw_pc,
    \* create_diagonal_reveal_mask called on its own
    mask_args, mask, mask_pc,
    \* generate_diagonal_zigzag_path and the global random generator
    rng_state, path_calls,
    \* a multi-image reveal run: validation, then the loop over the entries
    run_cli, run_option, run_configs, run_pc, run_idx, run_synth, run_error,
    \* the frames of one scene entry of create_multi_reveal_video
    scene_seconds, scene_frames, scene_pc,
    \* load_captions called on its own
    caption_data, loaded, load_pc,
    \* the pixel buffers behind the frames of an animation
    buf_args, heap, frame_refs, written, buf_pc,
    \* the reveal loop of create_single_reveal_animation followed frame by frame
    wipe_args, wipe_frame, wipe_prev, wipe_cursor

animVars == <<reveal_duration, total_duration, frames, anim_pc>>
pipeVars == <<image_configs, pan_direction, idx, all_frames, cover_image, pc,
              writer_open, encoded, files, temp_files, orig_video,
              mux_outcome, posix, transcode_outcome, upload_outcome,
              output_path, upload_arg, s3_url, exited>>
panVars  == <<pz, frame_idx, crops>>
capVars  == <<segments, t_sec, current, cap_pc>>
alignVars == <<alignment, word_segments, align_pc>>
cursorVars == <<reveal_frames, cursor_frame_idx, cursor_alphas>>
drawVars == <<draw_args, frame, draw_pc>>
maskVars == <<mask_args, mask, mask_pc>>
pathVars == <<rng_state, path_calls>>
runVars == <<run_cli, run_option, run_configs, run_pc, run_idx, run_synth, run_error>>
sceneVars == <<scene_seconds, scene_frames, scene_pc>>
loadVars == <<caption_data, loaded, load_pc>>
bufVars == <<buf_args, heap, frame_refs, written, buf_pc>>
wipeVars == <<wipe_args, wipe_frame, wipe_prev, wipe_cursor>>
fnVars == <<capVars, alignVars, cursorVars, drawVars, maskVars, pathVars, runVars, sceneVars, loadVars, bufVars, wipeVars>>
capRest ==
    <<animVars, pipeVars, panVars, alignVars, cursorVars,
      drawVars, maskVars, pathVars, runVars, sceneVars,
      loadVars, bufVars, wipeVars>>
alignRest ==
    <<animVars, pipeVars, panVars, capVars, cursorVars,
      drawVars, maskVars, pathVars, runVars, sceneVars,
      loadVars, bufVars, wipeVars>>
cursorRest ==
    <<animVars, pipeVars, panVars, capVars, alignVars,
      drawVars, maskVars, pathVars, runVars, sceneVars,
      loadVars, bufVars, wipeVars>>
drawRest ==
    <<animVars, pipeVars, panVars, capVars, alignVars,
      cursorVars, maskVars, pathVars, runVars, sceneVars,
      loadVars, bufVars, wipeVars>>
maskRest ==
    <<animVars, pipeVars, panVars, capVars, alignVars,
      cursorVars, drawVars, pathVars, runVars, sceneVars,
      loadVars, bufVars, wipeVars>>
pathRest ==
    <<animVars, pipeVars, panVars, capVars, alignVars,
      cursorVars, drawVars, maskVars, runVars, sceneVars,
      loadVars, bufVars, wipeVars>>
runRest ==
    <<animVars, pipeVars, panVars, capVars, alignVars,
      cursorVars, drawVars, maskVars, pathVars, sceneVars,
      loadVars, bufVars, wipeVars>>
sceneRest ==
    <<animVars, pipeVars, panVars, capVars, alignVars,
      cursorVars, drawVars, maskVars, pathVars, runVars,
      loadVars, bufVars, wipeVars>>
loadRest ==
    <<animVars, pipeVars, panVars, capVars, alignVars,
      cursorVars, drawVars, maskVars, pathVars, runVars,
      sceneVars, bufVars, wipeVars>>
bufRest ==
    <<animVars, pipeVars, panVars, capVars, alignVars,
      cursorVars, drawVars, maskVars, pathVars, runVars,
      sceneVars, loadVars, wipeVars>>
wipeRest ==
    <<animVars, pipeVars, panVars, capVars, alignVars,
      cursorVars, drawVars, maskVars, pathVars, runVars,
      sceneVars, loadVars, bufVars>>
vars     == <<animVars, pipeVars, panVars, fnVars>>

---------------------------------------------------------------------------
(* Bounds of the model *)

\* longest duration, in ticks, given to create_single_reveal_animation
MaxTicks == 12
\* longest timeline (number of entries of the config list)
MaxEntries == 3
\* latest start or end time of a caption segment, in tenths of a second
MaxTime == 3
\* most characters of a character alignment
MaxChars == 4
\* most reveal frames of a clip whose cursor fade is followed
MaxRevealFrames == 45
\* width and height, in pixels, of the frame the cursor is drawn on
DrawWidth == 4
DrawHeight == 3
\* largest width and height, in pixels, of a reveal mask
MaxMaskSize == 3
\* shortest reveal duration of a path call that gives a frame, in ticks
MaxPathTicks == 4
\* most calls of generate_diagonal_zigzag_path in one run
MaxPathCalls == 2
\* most entries of the timeline of a validated run
MaxRunEntries == 2
\* longest half duration of a scene entry rendered on its own, in ticks
MaxSceneHalfTicks == 60
\* most items of a caption array and most characters of a caption alignment
\* given to load_captions
MaxLoadLen == 2
\* most reveal frames, and most hold or pan frames, of an animation whose
\* buffers are followed
MaxBufFrames == 3

---------------------------------------------------------------------------
(* Program constants *)

FPS == 60
ConfigFPS == 30
\* DEFAULT_ZOOM_LEVEL = 1.1 and DEFAULT_PAN_DISTANCE_RATIO = 0.15, in percent
DEFAULT_ZOOM_LEVEL == 110
DEFAULT_PAN_DISTANCE_RATIO == 15
CURSOR_FADE_IN_FRAMES == 20
CURSOR_FADE_OUT_FRAMES == 20
DIAGONAL_ANGLE == 45
ZIG_ZAG_AMPLITUDE == 350
PathSeed == 42
SmoothingWindow == 15
START_OFFSET == 200
\* cos(45 degrees) = sin(45 degrees) and 2 * pi, in 1/10^8
COS_45 == 70710678
TWO_PI == 628318531

\* ticks per second: the unit of every duration of the model (5 ms)
TicksPerSecond == 2 * 100

\* DEFAULT_TOTAL_DURATION = 6.0 seconds, in ticks
DEFAULT_TOTAL_DURATION == 6 * TicksPerSecond

---------------------------------------------------------------------------
(* Python arithmetic *)

Max(a, b) == IF a >= b THEN a ELSE b
Min(a, b) == IF a <= b THEN a ELSE b

\* int(num / den) for den > 0: truncation toward zero
IntTrunc(num, den) ==
    IF num >= 0 THEN num \div den ELSE 0 - ((0 - num) \div den)

\* max(lo, min(x, hi))
Clamp(x, lo, hi) == Max(lo, Min(x, hi))

\* Python's round(num / den): to the nearest integer, ties to the even one
PyRound(num, den) ==
    LET a == IF num >= 0 THEN num ELSE 0 - num
        q == a \div den
        r == a % den
        m == IF 2 * r > den \/ (2 * r = den /\ q % 2 = 1) THEN q + 1 ELSE q
    IN  IF num >= 0 THEN m ELSE 0 - m

\* range(n) as the positions 1 .. n of a list; empty when n <= 0
RangeOf(n) == 1 .. Max(n, 0)

---------------------------------------------------------------------------
(* animation.py: create_single_reveal_animation *)

\* (mutation of RevealFrames: the product rounded to the nearest frame)
RevealFramesRounded(reveal) ==
    (2 * reveal * FPS + TicksPerSecond) \div (2 * TicksPerSecond)

\* reveal_frames = int(reveal_duration * FPS)
RevealFrames(reveal) == IntTrunc(reveal * FPS, TicksPerSecond)

\* hold_frames = int((total_duration - reveal_duration) * FPS)
HoldFrames(reveal, total) == IntTrunc((total - reveal) * FPS, TicksPerSecond)

\* the frame appended for reveal frame frame_idx of the image
RevealFrame(image, f) == [image |-> image, kind |-> "reveal", idx |-> f]

\* main_image.copy(): the fully revealed image
HoldFrame(image, k) == [image |-> image, kind |-> "hold", idx |-> k]

\* the list returned: range(reveal_frames) reveal frames, then
\* range(hold_frames) copies of the image
CreateSingleRevealAnimation(image, reveal, total) ==
    [p \in RangeOf(RevealFrames(reveal)) |-> RevealFrame(image, p - 1)]
    \o [p \in RangeOf(HoldFrames(reveal, total)) |-> HoldFrame(image, p - 1)]

\* create_static_hold_frames(image, duration_seconds): the image held for
\* the duration
CreateStaticHoldFrames(image, duration) ==
    [p \in RangeOf(PyRound(duration * FPS, TicksPerSecond)) |->
        HoldFrame(image, p - 1)]

---------------------------------------------------------------------------
(* config.py: calculate_dimensions *)

ASPECT_RATIOS == {<<16, 9>>, <<9, 16>>, <<1, 1>>, <<4, 5>>, <<4, 3>>}
QUALITY_PRESETS == {480, 720, 1080, 1440, 2160}
DEFAULT_ASPECT_RATIO == <<9, 16>>
DEFAULT_QUALITY == 720

\* width = int((ratio_w / ratio_h) * target_height), height = target_height
CalculateDimensions(aspect_ratio, quality) ==
    [width |-> (aspect_ratio[1] * quality) \div aspect_ratio[2],
     height |-> quality]

---------------------------------------------------------------------------
(* pan_zoom_animation.py: create_pan_zoom_animation.  The image is already *)
(* letterboxed to the canvas, so img_width = width, img_height = height.   *)

Directions == {"up", "down", "left", "right"}
Vertical(direction) == direction \in {"up", "down"}

\* zoomed_width = int(img_width * zoom_level)
ZoomedSize(size, zoom) == (size * zoom) \div 100

\* center_x = (zoomed_width - width) // 2
CenterOffset(size, zoom) == (ZoomedSize(size, zoom) - size) \div 2

\* avail_up / avail_left = center
AvailBefore(size, zoom) == CenterOffset(size, zoom)

\* avail_down / avail_right = zoomed - size - center
AvailAfter(size, zoom) ==
    ZoomedSize(size, zoom) - size - CenterOffset(size, zoom)

\* the canvas dimension the pan runs along
PanAxisSize(width, height, direction) ==
    IF Vertical(direction) THEN height ELSE width

\* requested_pan_distance = int(height * ratio) or int(width * ratio)
RequestedPanDistance(width, height, ratio, direction) ==
    (PanAxisSize(width, height, direction) * ratio) \div 100

\* max_available = min(avail_up, avail_down) or min(avail_left, avail_right)
MaxAvailable(width, height, zoom, direction) ==
    LET size == PanAxisSize(width, height, direction)
    IN  Min(AvailBefore(size, zoom), AvailAfter(size, zoom))

\* (mutation of PanDistancePixels: the requested distance, not limited by
\* the available room)
PanDistanceUnlimited(requested, max_available) ==
    IF requested = 0 THEN Max(1, max_available) ELSE requested

\* pan_distance_pixels = min(requested, max_available);
\* if pan_distance_pixels == 0: pan_distance_pixels = max(1, max_available)
PanDistancePixels(requested, max_available) ==
    LET d == Min(requested, max_available)
    IN  IF d = 0 THEN Max(1, max_available) ELSE d

\* the pan distance of a clip
PanDistance(width, height, zoom, ratio, direction) ==
    PanDistancePixels(RequestedPanDistance(width, height, ratio, direction),
                      MaxAvailable(width, height, zoom, direction))

\* total_frames = int(duration_seconds * FPS), FPS being the constant of the
\* config module the animation module imports
PanTotalFrames(duration, fps) == IntTrunc(duration * fps, TicksPerSecond)

\* (mutation of OffsetMagnitude: progress = frame_idx / total_frames)
OffsetMagnitudeOverTotal(pan, f, total) == (pan * (total - f)) \div total

\* |int(pan_distance_pixels * (1 - progress))| with
\* progress = frame_idx / (total_frames - 1), 0.0 when total_frames == 1
OffsetMagnitude(pan, f, total) ==
    IF total = 1 THEN pan ELSE (pan * (total - 1 - f)) \div (total - 1)

\* int(offset_x), int(offset_y) of frame f
OffsetAt(pan, direction, f, total) ==
    LET m == OffsetMagnitude(pan, f, total)
    IN  [x |-> IF direction = "left" THEN 0 - m
               ELSE IF direction = "right" THEN m ELSE 0,
         y |-> IF direction = "up" THEN 0 - m
               ELSE IF direction = "down" THEN m ELSE 0]

\* crop_x = center_x + int(offset_x), likewise crop_y, before the bounds check
RawCrop(width, height, zoom, ratio, direction, f, total) ==
    LET off == OffsetAt(PanDistance(width, height, zoom, ratio, direction),
                        direction, f, total)
    IN  [x |-> CenterOffset(width, zoom) + off.x,
         y |-> CenterOffset(height, zoom) + off.y]

\* crop = max(0, min(crop, zoomed - size)): the bounds check
CropAt(width, height, zoom, ratio, direction, f, total) ==
    LET raw == RawCrop(width, height, zoom, ratio, direction, f, total)
    IN  [x |-> Clamp(raw.x, 0, ZoomedSize(width, zoom) - width),
         y |-> Clamp(raw.y, 0, ZoomedSize(height, zoom) - height)]

\* the frame cut from the zoomed image at the crop position
PanZoomFrame(image, width, height, zoom, ratio, direction, f, total) ==
    [image |-> image, kind |-> "pan", idx |-> f, direction |-> direction,
     crop |-> CropAt(width, height, zoom, ratio, direction, f, total)]

\* the list returned: one frame per index of range(total_frames)
CreatePanZoomAnimation(image, width, height, duration, direction, zoom, ratio) ==
    LET total == PanTotalFrames(duration, FPS)
    IN  [p \in RangeOf(total) |->
            PanZoomFrame(image, width, height, zoom, ratio, direction,
                         p - 1, total)]

---------------------------------------------------------------------------
(* Idle values of the variables a specification does not use *)

AnimIdle ==
    /\ reveal_duration = 0
    /\ total_duration = 0
    /\ frames = <<>>
    /\ anim_pc = "idle"

PipeIdle ==
    /\ image_configs = <<>>
    /\ pan_direction = "None"
    /\ idx = 0
    /\ all_frames = <<>>
    /\ cover_image = {}
    /\ pc = "idle"
    /\ writer_open = FALSE
    /\ encoded = <<>>
    /\ files = [n \in {"out", "tmp", "no_audio"} |-> "none"]
    /\ temp_files = {}
    /\ orig_video = "none"
    /\ mux_outcome = "none"
    /\ posix = TRUE
    /\ transcode_outcome = "none"
    /\ upload_outcome = "none"
    /\ output_path = "resolved"
    /\ upload_arg = "none"
    /\ s3_url = "None"
    /\ exited = FALSE

PanIdle ==
    /\ pz = [width |-> 0]
    /\ frame_idx = 0
    /\ crops = <<>>

CapIdle ==
    /\ segments = <<>>
    /\ t_sec = 0
    /\ current = <<>>
    /\ cap_pc = "idle"

AlignIdle ==
    /\ alignment = <<>>
    /\ word_segments = <<>>
    /\ align_pc = "idle"

CursorIdle ==
    /\ reveal_frames = 0
    /\ cursor_frame_idx = 0
    /\ cursor_alphas = <<>>

DrawIdle ==
    /\ draw_args = <<>>
    /\ frame = <<>>
    /\ draw_pc = "idle"

MaskIdle ==
    /\ mask_args = <<>>
    /\ mask = <<>>
    /\ mask_pc = "idle"

PathIdle ==
    /\ rng_state = 0
    /\ path_calls = <<>>

RunIdle ==
    /\ run_cli = FALSE
    /\ run_option = "ok"
    /\ run_configs = <<>>
    /\ run_pc = "idle"
    /\ run_idx = 0
    /\ run_synth = {}
    /\ run_error = "None"

SceneIdle ==
    /\ scene_seconds = 0
    /\ scene_frames = <<>>
    /\ scene_pc = "idle"

LoadIdle ==
    /\ caption_data = <<>>
    /\ loaded = <<>>
    /\ load_pc = "idle"

BufIdle ==
    /\ buf_args = <<>>
    /\ heap = <<>>
    /\ frame_refs = <<>>
    /\ written = {}
    /\ buf_pc = "idle"

WipeIdle ==
    /\ wipe_args = <<>>
    /\ wipe_frame = 0
    /\ wipe_prev = {}
    /\ wipe_cursor = {}

CapRestIdle ==
    /\ AnimIdle
    /\ PipeIdle
    /\ PanIdle
    /\ AlignIdle
    /\ CursorIdle
    /\ DrawIdle
    /\ MaskIdle
    /\ PathIdle
    /\ RunIdle
    /\ SceneIdle
    /\ LoadIdle
    /\ BufIdle
    /\ WipeIdle

AlignRestIdle ==
    /\ AnimIdle
    /\ PipeIdle
    /\ PanIdle
    /\ CapIdle
    /\ CursorIdle
    /\ DrawIdle
    /\ MaskIdle
    /\ PathIdle
    /\ RunIdle
    /\ SceneIdle
    /\ LoadIdle
    /\ BufIdle
    /\ WipeIdle

CursorRestIdle ==
    /\ AnimIdle
    /\ PipeIdle
    /\ PanIdle
    /\ CapIdle
    /\ AlignIdle
    /\ DrawIdle
    /\ MaskIdle
    /\ PathIdle
    /\ RunIdle
    /\ SceneIdle
    /\ LoadIdle
    /\ BufIdle
    /\ WipeIdle

DrawRestIdle ==
    /\ AnimIdle
    /\ PipeIdle
    /\ PanIdle
    /\ CapIdle
    /\ AlignIdle
    /\ CursorIdle
    /\ MaskIdle
    /\ PathIdle
    /\ RunIdle
    /\ SceneIdle
    /\ LoadIdle
    /\ BufIdle
    /\ WipeIdle

MaskRestIdle ==
    /\ AnimIdle
    /\ PipeIdle
    /\ PanIdle
    /\ CapIdle
    /\ AlignIdle
    /\ CursorIdle
    /\ DrawIdle
    /\ PathIdle
    /\ RunIdle
    /\ SceneIdle
    /\ LoadIdle
    /\ BufIdle
    /\ WipeIdle

PathRestIdle ==
    /\ AnimIdle
    /\ PipeIdle
    /\ PanIdle
    /\ CapIdle
    /\ AlignIdle
    /\ CursorIdle
    /\ DrawIdle
    /\ MaskIdle
    /\ RunIdle
    /\ SceneIdle
    /\ LoadIdle
    /\ BufIdle
    /\ WipeIdle

RunRestIdle ==
    /\ AnimIdle
    /\ PipeIdle
    /\ PanIdle
    /\ CapIdle
    /\ AlignIdle
    /\ CursorIdle
    /\ DrawIdle
    /\ MaskIdle
    /\ PathIdle
    /\ SceneIdle
    /\ LoadIdle
    /\ BufIdle
    /\ WipeIdle

SceneRestIdle ==
    /\ AnimIdle
    /\ PipeIdle
    /\ PanIdle
    /\ CapIdle
    /\ AlignIdle
    /\ CursorIdle
    /\ DrawIdle
    /\ MaskIdle
    /\ PathIdle
    /\ RunIdle
    /\ LoadIdle
    /\ BufIdle
    /\ WipeIdle

LoadRestIdle ==
    /\ AnimIdle
    /\ PipeIdle
    /\ PanIdle
    /\ CapIdle
    /\ AlignIdle
    /\ CursorIdle
    /\ DrawIdle
    /\ MaskIdle
    /\ PathIdle
    /\ RunIdle
    /\ SceneIdle
    /\ BufIdle
    /\ WipeIdle

BufRestIdle ==
    /\ AnimIdle
    /\ PipeIdle
    /\ PanIdle
    /\ CapIdle
    /\ AlignIdle
    /\ CursorIdle
    /\ DrawIdle
    /\ MaskIdle
    /\ PathIdle
    /\ RunIdle
    /\ SceneIdle
    /\ LoadIdle
    /\ WipeIdle

WipeRestIdle ==
    /\ AnimIdle
    /\ PipeIdle
    /\ PanIdle
    /\ CapIdle
    /\ AlignIdle
    /\ CursorIdle
    /\ DrawIdle
    /\ MaskIdle
    /\ PathIdle
    /\ RunIdle
    /\ SceneIdle
    /\ LoadIdle
    /\ BufIdle

FnIdle ==
    /\ CapIdle
    /\ AlignIdle
    /\ CursorIdle
    /\ DrawIdle
    /\ MaskIdle
    /\ PathIdle
    /\ RunIdle
    /\ SceneIdle
    /\ LoadIdle
    /\ BufIdle
    /\ WipeIdle

---------------------------------------------------------------------------
(* SpecReveal: create_single_reveal_animation on every pair of durations *)

InitReveal ==
    /\ reveal_duration \in 0 .. MaxTicks
    /\ total_duration \in 0 .. MaxTicks
    /\ frames = <<>>
    /\ anim_pc = "call"
    /\ PipeIdle
    /\ PanIdle
    /\ FnIdle

CallReveal ==
    /\ anim_pc = "call"
    /\ frames' = CreateSingleRevealAnimation(0, reveal_duration, total_duration)
    /\ anim_pc' = "returned"
    /\ UNCHANGED <<reveal_duration, total_duration, pipeVars, panVars,
                   fnVars>>

NextReveal == CallReveal

SpecReveal == InitReveal /\ [][NextReveal]_vars

---------------------------------------------------------------------------
(* The file system of the output directory.  A name holds "none" (no file), *)
(* "raw" (the mp4v video written by the encoder), "h264" (transcoded),      *)
(* "muxed" (video with the audio track) or "partial" (what a failed tool    *)
(* run left behind).                                                        *)

FileNames == {"out", "tmp", "no_audio"}
Playable(content) == content \in {"raw", "h264", "muxed"}

\* Path.rename(target): on Unix an existing target is replaced silently, on
\* Windows FileExistsError is raised when the target exists
Rename(fs, src, dst, px) ==
    IF fs[dst] # "none" /\ ~px
    THEN [ok |-> FALSE, fs |-> fs]
    ELSE [ok |-> TRUE, fs |-> [fs EXCEPT ![dst] = fs[src], ![src] = "none"]]

\* if path.exists(): path.unlink()
UnlinkIfExists(fs, name) == [fs EXCEPT ![name] = "none"]

---------------------------------------------------------------------------
(* video_writer.py: convert_to_h264 *)

TranscodeOutcomes == {"ok", "tool_missing", "tool_error", "tool_error_partial"}

\* (mutation of ConvertToH264: a temp output left by a failed run stays)
ConvertToH264KeepTemp(fs, outcome, px) ==
    IF outcome = "ok"
    THEN Rename(UnlinkIfExists([fs EXCEPT !["tmp"] = "h264"], "out"),
                "tmp", "out", px).fs
    ELSE IF outcome = "tool_error_partial"
         THEN [fs EXCEPT !["tmp"] = "partial"] ELSE fs

\* ffmpeg writes <out>.tmp.mp4; on success the original is unlinked and the
\* temp output renamed over it, on failure a temp output left behind is removed
ConvertToH264(fs, outcome, px) ==
    IF outcome = "ok"
    THEN Rename(UnlinkIfExists([fs EXCEPT !["tmp"] = "h264"], "out"),
                "tmp", "out", px).fs
    ELSE LET ran == IF outcome = "tool_error_partial"
                    THEN [fs EXCEPT !["tmp"] = "partial"] ELSE fs
         IN  UnlinkIfExists(ran, "tmp")

---------------------------------------------------------------------------
(* audio_utils.py: match_video_to_audio_length; video_writer.py:            *)
(* _add_audio_to_video                                                      *)

MuxOutcomes ==
    {"ok", "audio_missing", "tool_missing", "tool_error", "tool_error_partial"}

\* ffmpeg -y ... output_path: the muxed video at the output name on success;
\* ValueError / FileNotFoundError otherwise, a failed run possibly leaving a
\* partial output at the output name
MatchVideoToAudioLength(fs, outcome) ==
    IF fs["no_audio"] = "none" THEN [ok |-> FALSE, fs |-> fs]
    ELSE IF outcome = "ok" THEN [ok |-> TRUE, fs |-> [fs EXCEPT !["out"] = "muxed"]]
    ELSE IF outcome = "tool_error_partial"
         THEN [ok |-> FALSE, fs |-> [fs EXCEPT !["out"] = "partial"]]
    ELSE [ok |-> FALSE, fs |-> fs]

\* except Exception: if temp_video.exists(): temp_video.rename(video_path)
RestoreOriginal(fs, px) ==
    IF fs["no_audio"] # "none" THEN Rename(fs, "no_audio", "out", px).fs ELSE fs

\* the whole of _add_audio_to_video: [raised, fs]
AddAudioToVideo(fs, outcome, px) ==
    LET aside == Rename(fs, "out", "no_audio", px)
        mux == MatchVideoToAudioLength(aside.fs, outcome)
    IN  IF ~aside.ok THEN [raised |-> TRUE, fs |-> fs]
        ELSE IF mux.ok
             THEN [raised |-> FALSE, fs |-> UnlinkIfExists(mux.fs, "no_audio")]
        ELSE [raised |-> TRUE, fs |-> RestoreOriginal(mux.fs, px)]

\* upload_to_s3 returns the URL, or raises for missing credentials, a missing
\* bucket or a network failure
UploadOutcomes == {"ok", "no_credentials", "no_bucket", "network_error"}

\* try: s3_url = upload_to_s3(output_path) / except Exception: warning; the
\* URL returned by the function, "None" when there is none
UploadResult(upload_to_aws, outcome) ==
    IF upload_to_aws /\ outcome = "ok" THEN "url" ELSE "None"

\* CleanupManager.cleanup: every registered temp file that exists is unlinked
CleanupFiles(fs, registered) ==
    [n \in FileNames |-> IF n \in registered THEN "none" ELSE fs[n]]

---------------------------------------------------------------------------
(* video_writer.py: create_multi_reveal_video, the per-entry loop *)

\* config.get('seconds', DEFAULT_TOTAL_DURATION); an entry's seconds is {}
\* when the key is absent and {s} when it is s ticks
Seconds(config) ==
    IF config.seconds = {} THEN DEFAULT_TOTAL_DURATION
    ELSE CHOOSE s \in config.seconds : TRUE

\* (mutation of Extend: the new frames put in front)
ExtendFront(list, more) == more \o list

\* all_frames.extend(frames)
Extend(list, more) == list \o more

\* (mutation of KeepCover: every cover entry replaces the one kept)
KeepLastCover(kept, i) == {i}

\* if cover_image is None: cover_image = main_image; the image of entry i is
\* named i, and no image is {}
KeepCover(kept, i) == IF kept = {} THEN {i} ELSE kept

\* reveal_duration = seconds * 0.5; total_duration = seconds
SceneFrames(i, seconds) ==
    CreateSingleRevealAnimation(i, seconds \div 2, seconds)

\* (mutation of CoverDuration: the entry's own seconds)
CoverDurationRequested(config) == Seconds(config)

\* create_static_hold_frames(cover_image, duration_seconds=1.0), whatever the
\* seconds of the cover entry
CoverDuration(config) == TicksPerSecond

\* if cover_image is not None: all_frames.extend(cover_frames)
CoverFrames(configs, kept) ==
    IF kept = {} THEN <<>>
    ELSE LET i == CHOOSE k \in kept : TRUE
         IN  CreateStaticHoldFrames(i, CoverDuration(configs[i + 1]))

---------------------------------------------------------------------------
(* video_writer.py: create_pan_zoom_video, the per-entry loop *)

\* (mutation of PanDirection: the parity reversed)
PanDirectionReversed(i, config, root) == IF i % 2 = 0 THEN "down" ELSE "up"

\* direction = "up" if idx % 2 == 0 else "down"
PanDirection(i, config, root) == IF i % 2 = 0 THEN "up" ELSE "down"

\* the canvas of the run: calculate_dimensions(None, None)
CanvasOfRun == CalculateDimensions(DEFAULT_ASPECT_RATIO, DEFAULT_QUALITY)

\* seconds = config.get('seconds', 5.0)
PanSeconds(config) ==
    IF config.seconds = {} THEN 5 * TicksPerSecond
    ELSE CHOOSE s \in config.seconds : TRUE

\* the frames of entry i
PanEntryFrames(i, config, root) ==
    CreatePanZoomAnimation(i, CanvasOfRun.width, CanvasOfRun.height,
                           PanSeconds(config), PanDirection(i, config, root),
                           DEFAULT_ZOOM_LEVEL, DEFAULT_PAN_DISTANCE_RATIO)

---------------------------------------------------------------------------
(* Spec: create_multi_reveal_video under a CleanupManager, from the config  *)
(* list to the cleanup.  SpecPanZoom: create_pan_zoom_video likewise.       *)

\* durations of the entries, in ticks (even, so that seconds * 0.5 is exact)
SceneSecondsChoices == {10, 20}
CoverSecondsChoices == {{}, {10}}
PanSecondsChoices == {6, 10}

RevealEntries ==
    [type : {"scene"}, seconds : {{s} : s \in SceneSecondsChoices}]
    \cup [type : {"cover"}, seconds : CoverSecondsChoices]

PanEntries ==
    [type : {"scene"}, seconds : {{s} : s \in PanSecondsChoices},
     direction : {"None", "down", "left"}]

Timelines(entries) == UNION {[1 .. n -> entries] : n \in 0 .. MaxEntries}

PipeStart ==
    /\ idx = 0
    /\ all_frames = <<>>
    /\ cover_image = {}
    /\ writer_open = FALSE
    /\ encoded = <<>>
    /\ files = [n \in FileNames |-> "none"]
    /\ temp_files = {}
    /\ orig_video = "none"
    /\ mux_outcome = "none"
    /\ posix \in BOOLEAN
    /\ transcode_outcome = "none"
    /\ upload_outcome = "none"
    /\ output_path = "resolved"
    /\ upload_arg = "none"
    /\ s3_url = "None"
    /\ exited = FALSE

Init ==
    /\ image_configs \in Timelines(RevealEntries)
    /\ pan_direction = "None"
    /\ pc = "synth"
    /\ PipeStart
    /\ AnimIdle
    /\ PanIdle
    /\ FnIdle

InitPanZoom ==
    /\ image_configs \in Timelines(PanEntries)
    /\ pan_direction \in {"None", "right"}
    /\ pc = IF image_configs = <<>> THEN "write" ELSE "synth"
    /\ PipeStart
    /\ AnimIdle
    /\ PanIdle
    /\ FnIdle

\* (mutation of Abort: the frames rendered so far are flushed to the output
\* file before the error leaves the function)
AbortAfterFlush ==
    /\ pc' = "raised"
    /\ files' = [files EXCEPT !["out"] = "raw"]
    /\ UNCHANGED <<image_configs, pan_direction, idx, all_frames,
                   cover_image, writer_open, encoded, temp_files, orig_video,
                   mux_outcome, posix, transcode_outcome, upload_outcome,
                   output_path, upload_arg, s3_url, exited>>

\* load_and_resize_image raised: the run aborts
Abort ==
    /\ pc' = "raised"
    /\ UNCHANGED <<image_configs, pan_direction, idx, all_frames,
                   cover_image, writer_open, encoded, files, temp_files,
                   orig_video, mux_outcome, posix, transcode_outcome,
                   upload_outcome, output_path, upload_arg, s3_url, exited>>

\* one iteration of the loop of create_multi_reveal_video
ProcessEntry ==
    /\ pc = "synth"
    /\ idx < Len(image_configs)
    /\ \E decoded \in BOOLEAN :
          IF ~decoded THEN Abort
          ELSE LET config == image_configs[idx + 1]
               IN  /\ cover_image' = IF config.type = "cover"
                                     THEN KeepCover(cover_image, idx)
                                     ELSE cover_image
                   /\ all_frames' = IF config.type = "cover" THEN all_frames
                                    ELSE Extend(all_frames,
                                                SceneFrames(idx, Seconds(config)))
                   /\ idx' = idx + 1
                   /\ UNCHANGED <<image_configs, pan_direction, pc,
                                  writer_open, encoded, files, temp_files,
                                  orig_video, mux_outcome, posix,
                                  transcode_outcome, upload_outcome,
                                  output_path, upload_arg, s3_url, exited>>
    /\     /\ UNCHANGED <<animVars, panVars, fnVars>>

\* after the loop: the cover kept is appended at the end
AppendCover ==
    /\ pc = "synth"
    /\ idx = Len(image_configs)
    /\ all_frames' = Extend(all_frames, CoverFrames(image_configs, cover_image))
    /\ pc' = "write"
    /\ UNCHANGED <<image_configs, pan_direction, idx, cover_image,
                   writer_open, encoded, files, temp_files, orig_video,
                   mux_outcome, posix, transcode_outcome, upload_outcome,
                   output_path, upload_arg, s3_url, exited, animVars,
                   panVars, fnVars>>

\* one iteration of the loop of create_pan_zoom_video
PanEntry ==
    /\ pc = "synth"
    /\ idx < Len(image_configs)
    /\ \E decoded \in BOOLEAN :
          IF ~decoded THEN Abort
          ELSE /\ all_frames' = Extend(all_frames,
                     PanEntryFrames(idx, image_configs[idx + 1], pan_direction))
               /\ idx' = idx + 1
               /\ pc' = IF idx + 1 = Len(image_configs) THEN "write" ELSE "synth"
               /\ UNCHANGED <<image_configs, pan_direction, cover_image,
                              writer_open, encoded, files, temp_files,
                              orig_video, mux_outcome, posix,
                              transcode_outcome, upload_outcome, output_path,
                              upload_arg, s3_url, exited>>
    /\     /\ UNCHANGED <<animVars, panVars, fnVars>>

\* write_frames_to_video: cv2.VideoWriter(...); ValueError when not opened
OpenWriter ==
    /\ pc = "write"
    /\ \E opened \in BOOLEAN :
          IF opened
          THEN /\ writer_open' = TRUE
               /\ files' = [files EXCEPT !["out"] = "raw"]
               /\ pc' = "writing"
          ELSE /\ pc' = "raised"
               /\                /\ UNCHANGED <<writer_open, files>>
    /\ UNCHANGED <<image_configs, pan_direction, idx, all_frames,
                   cover_image, encoded, temp_files, orig_video, mux_outcome,
                   posix, transcode_outcome, upload_outcome, output_path,
                   upload_arg, s3_url, exited, animVars, panVars, fnVars>>

\* write_frames_to_video: out.write(frame) for the next frame of the list
WriteFrame ==
    /\ pc = "writing"
    /\ Len(encoded) < Len(all_frames)
    /\ encoded' = Append(encoded, all_frames[Len(encoded) + 1])
    /\ UNCHANGED <<image_configs, pan_direction, idx, all_frames,
                   cover_image, pc, writer_open, files, temp_files,
                   orig_video, mux_outcome, posix, transcode_outcome,
                   upload_outcome, output_path, upload_arg, s3_url, exited,
                   animVars, panVars, fnVars>>

\* write_frames_to_video: out.release() after the last frame
ReleaseWriter ==
    /\ pc = "writing"
    /\ Len(encoded) = Len(all_frames)
    /\ writer_open' = FALSE
    /\ pc' = "transcode"
    /\ UNCHANGED <<image_configs, pan_direction, idx, all_frames,
                   cover_image, encoded, files, temp_files, orig_video,
                   mux_outcome, posix, transcode_outcome, upload_outcome,
                   output_path, upload_arg, s3_url, exited, animVars,
                   panVars, fnVars>>

\* convert_to_h264(Path(output_path)): never raises
Transcode ==
    /\ pc = "transcode"
    /\ \E outcome \in TranscodeOutcomes :
          /\ files' = ConvertToH264(files, outcome, posix)
          /\ transcode_outcome' = outcome
    /\ pc' = "mux"
    /\ UNCHANGED <<image_configs, pan_direction, idx, all_frames,
                   cover_image, writer_open, encoded, temp_files, orig_video,
                   mux_outcome, posix, upload_outcome, output_path,
                   upload_arg, s3_url, exited, animVars, panVars, fnVars>>

\* (mutation of Mux: an error of the mux is caught, the video without audio
\* goes on to the upload)
MuxErrorCaught ==
    /\ pc = "mux"
    /\ \E audio \in BOOLEAN :
          IF ~audio
          THEN /\ pc' = "upload"
               /\ UNCHANGED <<files, temp_files, orig_video, mux_outcome,
                              output_path>>
          ELSE \E outcome \in MuxOutcomes :
                 LET r == AddAudioToVideo(files, outcome, posix)
                 IN  /\ files' = r.fs
                     /\ temp_files' = temp_files \cup {"no_audio"}
                     /\ orig_video' = files["out"]
                     /\ mux_outcome' = outcome
                     /\ output_path' = IF r.raised THEN output_path
                                       ELSE "final_video"
                     /\ pc' = "upload"
    /\ UNCHANGED <<image_configs, pan_direction, idx, all_frames,
                   cover_image, writer_open, encoded, posix,
                   transcode_outcome, upload_outcome, upload_arg, s3_url,
                   exited, animVars, panVars, fnVars>>

\* if audio_path: output_path = _add_audio_to_video(...); the name is bound
\* to the path the mux returned, an exception of the mux leaves the function
Mux ==
    /\ pc = "mux"
    /\ \E audio \in BOOLEAN :
          IF ~audio
          THEN /\ pc' = "upload"
               /\ UNCHANGED <<files, temp_files, orig_video, mux_outcome,
                              output_path>>
          ELSE \E outcome \in MuxOutcomes :
                 LET r == AddAudioToVideo(files, outcome, posix)
                 IN  /\ files' = r.fs
                     /\ temp_files' = temp_files \cup {"no_audio"}
                     /\ orig_video' = files["out"]
                     /\ mux_outcome' = outcome
                     /\ output_path' = IF r.raised THEN output_path
                                       ELSE "final_video"
                     /\ pc' = IF r.raised THEN "raised" ELSE "upload"
    /\ UNCHANGED <<image_configs, pan_direction, idx, all_frames,
                   cover_image, writer_open, encoded, posix,
                   transcode_outcome, upload_outcome, upload_arg, s3_url,
                   exited, animVars, panVars, fnVars>>

\* if upload_to_aws: try upload_to_s3(output_path) except Exception: warning
Upload ==
    /\ pc = "upload"
    /\ \E upload_to_aws \in BOOLEAN, outcome \in UploadOutcomes :
          /\ upload_outcome' = IF upload_to_aws THEN outcome ELSE "none"
          /\ upload_arg' = IF upload_to_aws THEN output_path ELSE "none"
          /\ s3_url' = UploadResult(upload_to_aws, outcome)
    /\ pc' = "returned"
    /\ UNCHANGED <<image_configs, pan_direction, idx, all_frames,
                   cover_image, writer_open, encoded, files, temp_files,
                   orig_video, mux_outcome, output_path, posix,
                   transcode_outcome, exited, animVars, panVars, fnVars>>

\* CleanupManager.__exit__: cleanup() runs whether the body returned or raised
Cleanup ==
    /\ pc \in {"returned", "raised"}
    /\ ~exited
    /\ files' = CleanupFiles(files, temp_files)
    /\ exited' = TRUE
    /\ UNCHANGED <<image_configs, pan_direction, idx, all_frames,
                   cover_image, pc, writer_open, encoded, temp_files,
                   orig_video, mux_outcome, posix, transcode_outcome,
                   upload_outcome, output_path, upload_arg, s3_url, animVars,
                   panVars, fnVars>>

PostProcess ==
    \/ OpenWriter
    \/ WriteFrame
    \/ ReleaseWriter
    \/ Transcode
    \/ Mux
    \/ Upload
    \/ Cleanup

Next == ProcessEntry \/ AppendCover \/ PostProcess

NextPanZoom == PanEntry \/ PostProcess

Spec == Init /\ [][Next]_vars

SpecPanZoom == InitPanZoom /\ [][NextPanZoom]_vars

---------------------------------------------------------------------------
(* SpecPan: create_pan_zoom_animation alone, on the preset canvases, frame  *)
(* by frame                                                                 *)

\* the canvases of calculate_dimensions and the canvas of the flat config
\* module (WIDTH x HEIGHT)
PresetCanvases ==
    {CalculateDimensions(a, q) : a \in ASPECT_RATIOS, q \in QUALITY_PRESETS}
    \cup {[width |-> 1080, height |-> 1920]}
ZoomChoices == {100, DEFAULT_ZOOM_LEVEL, 150}
RatioChoices == {0, DEFAULT_PAN_DISTANCE_RATIO, 50, 100}
PanDurationChoices == {0, 7, 10, 20}

InitPan ==
    /\ \E canvas \in PresetCanvases :
          pz \in [width : {canvas.width}, height : {canvas.height},
                  zoom : ZoomChoices, ratio : RatioChoices,
                  direction : Directions, duration : PanDurationChoices,
                  fps : {FPS, ConfigFPS}, pan : {{}}]
    /\ frame_idx = 0
    /\ crops = <<>>
    /\ AnimIdle
    /\ PipeIdle
    /\ FnIdle

\* the part of create_pan_zoom_animation before the loop: the zoomed size,
\* the available room and the pan distance ({} until computed)
PanSetup ==
    /\ "pan" \in DOMAIN pz
    /\ pz.pan = {}
    /\ pz' = [pz EXCEPT !.pan = {PanDistance(pz.width, pz.height, pz.zoom,
                                             pz.ratio, pz.direction)}]
    /\     /\ UNCHANGED <<frame_idx, crops, animVars, pipeVars, fnVars>>

\* one iteration of: for frame_idx in range(total_frames)
PanFrame ==
    /\ "pan" \in DOMAIN pz
    /\ pz.pan # {}
    /\ LET total == PanTotalFrames(pz.duration, pz.fps)
       IN  /\ frame_idx < total
           /\ crops' = Append(crops,
                  [raw |-> RawCrop(pz.width, pz.height, pz.zoom, pz.ratio,
                                   pz.direction, frame_idx, total),
                   crop |-> CropAt(pz.width, pz.height, pz.zoom, pz.ratio,
                                   pz.direction, frame_idx, total)])
    /\ frame_idx' = frame_idx + 1
    /\     /\ UNCHANGED <<pz, animVars, pipeVars, fnVars>>

NextPan == PanSetup \/ PanFrame

SpecPan == InitPan /\ [][NextPan]_vars

\* create_pan_zoom_animation on canvases of a few pixels, where zooming
\* leaves one pixel of room or none (width, height are parameters of the
\* function, not limited to the presets)
SmallCanvases == [width : {9, 12}, height : {16, 19}]

InitPanSmall ==
    /\ pz \in [width : {c.width : c \in SmallCanvases},
                height : {c.height : c \in SmallCanvases},
                zoom : ZoomChoices, ratio : RatioChoices,
                direction : Directions, duration : PanDurationChoices,
                fps : {FPS, ConfigFPS}, pan : {{}}]
    /\ frame_idx = 0
    /\ crops = <<>>
    /\ AnimIdle
    /\ PipeIdle
    /\ FnIdle

SpecPanSmall == InitPanSmall /\ [][NextPan]_vars

---------------------------------------------------------------------------
(* captions/caption_overlay.py: _get_current_segment.  A segment is a       *)
(* record [text, start, end], times in tenths of a second; None is "None"   *)
(* for a text and {} for a number ({v} is the number v).                    *)
(* SpecCaption: the lookup on every track of at most two segments.          *)

TrackLengths == 0 .. 2
CaptionTexts == {"a", "b"}
CaptionSegments ==
    [text : CaptionTexts, start : 0 .. MaxTime, end : 0 .. MaxTime]
CaptionTracks == UNION {[1 .. n -> CaptionSegments] : n \in TrackLengths}

\* " ".join(s[0] for s in segments), as the list of the words joined
FullText(segs) == [i \in 1 .. Len(segs) |-> segs[i].text]

\* the result tuple for segment i
SegmentResult(segs, i) ==
    [full_text |-> FullText(segs), current_text |-> segs[i].text,
     current_index |-> {i - 1}, start_sec |-> {segs[i].start},
     end_sec |-> {segs[i].end}]

\* the result tuple without a current segment
NoSegmentResult(segs) ==
    [full_text |-> FullText(segs), current_text |-> "None",
     current_index |-> {}, start_sec |-> {}, end_sec |-> {}]

\* (mutation of InSegment: the interval closed at both ends)
InSegmentClosed(seg, t) == seg.start <= t /\ t <= seg.end

\* if start <= t_sec < end
InSegment(seg, t) == seg.start <= t /\ t < seg.end

\* _get_current_segment(t_sec, segments): the first segment, in list order,
\* whose interval contains t; else the last one when t is at or after its
\* end; else none
GetCurrentSegment(t, segs) ==
    IF segs = <<>> THEN NoSegmentResult(segs)
    ELSE LET hits == {i \in 1 .. Len(segs) : InSegment(segs[i], t)}
         IN  IF hits # {}
             THEN SegmentResult(segs, CHOOSE i \in hits : \A j \in hits : i <= j)
             ELSE IF t >= segs[Len(segs)].end
                  THEN SegmentResult(segs, Len(segs))
                  ELSE NoSegmentResult(segs)

InitCaption ==
    /\ segments \in CaptionTracks
    /\ t_sec \in -1 .. MaxTime + 1
    /\ current = <<>>
    /\ cap_pc = "call"
    /\ CapRestIdle

CallGetCurrentSegment ==
    /\ cap_pc = "call"
    /\ current' = GetCurrentSegment(t_sec, segments)
    /\ cap_pc' = "returned"
    /\     /\ UNCHANGED <<segments, t_sec, capRest>>

NextCaption == CallGetCurrentSegment

SpecCaption == InitCaption /\ [][NextCaption]_vars

---------------------------------------------------------------------------
(* captions/caption_overlay.py: alignment_to_word_segments.  A word is the  *)
(* list of its characters; the optional text is {} (None) or {the list of   *)
(* its characters}; the time arrays hold 2i and 2i + 1 for character i.     *)
(* SpecAlign: the conversion of every alignment of at most MaxChars         *)
(* characters.                                                              *)

AlignChars == {"h", "y", " "}
TextChars == {"H", " "}
SeqsOf(alphabet, n) == [1 .. n -> alphabet]

\* characters[i].strip() == ""
IsBlank(c) == c \in {" ", ""}

\* while i < n and characters[i].strip() == "": i += 1  (positions from 1)
RECURSIVE SkipBlanks(_, _)
SkipBlanks(characters, i) ==
    IF i <= Len(characters) /\ IsBlank(characters[i])
    THEN SkipBlanks(characters, i + 1) ELSE i

\* while i < n and characters[i].strip() != "": i += 1
RECURSIVE SkipWord(_, _)
SkipWord(characters, i) ==
    IF i <= Len(characters) /\ ~IsBlank(characters[i])
    THEN SkipWord(characters, i + 1) ELSE i

\* use_text = text is not None and len(text) == n
UseText(characters, text) ==
    text # {} /\ \A t \in text : Len(t) = Len(characters)

\* (mutation of WordOf: the blank that ends the run taken into the word)
WordWithBlank(characters, text, first, last) ==
    SubSeq(characters, first, Min(last + 1, Len(characters)))

\* word = "".join(word_chars) if not use_text else text[start_idx:end_idx+1]
WordOf(characters, text, first, last) ==
    IF UseText(characters, text)
    THEN SubSeq(CHOOSE t \in text : TRUE, first, last)
    ELSE SubSeq(characters, first, last)

\* the outer while loop, from position i on
RECURSIVE WordSegmentsFrom(_, _, _, _, _)
WordSegmentsFrom(characters, starts, ends, text, i) ==
    LET first == SkipBlanks(characters, i)
    IN  IF first > Len(characters) THEN <<>>
        ELSE LET next == SkipWord(characters, first)
                 word == WordOf(characters, text, first, next - 1)
             IN  (IF word # <<>>
                  THEN <<[text |-> word, start |-> starts[first],
                          end |-> ends[next - 1]]>>
                  ELSE <<>>)
                 \o WordSegmentsFrom(characters, starts, ends, text, next)

\* alignment_to_word_segments: [raised, segments]
AlignmentToWordSegments(characters, starts, ends, text) ==
    IF Len(characters) = 0 THEN [raised |-> FALSE, segments |-> <<>>]
    ELSE IF Len(starts) # Len(characters) \/ Len(ends) # Len(characters)
         THEN [raised |-> TRUE, segments |-> <<>>]
    ELSE [raised |-> FALSE,
          segments |-> WordSegmentsFrom(characters, starts, ends, text, 1)]

Alignments ==
    UNION {[characters : SeqsOf(AlignChars, n),
            character_start_times_seconds :
                {[i \in 1 .. m |-> 2 * i] : m \in {n, n + 1}},
            character_end_times_seconds : {[i \in 1 .. n |-> 2 * i + 1]},
            text : {{}} \cup {{t} : t \in SeqsOf(TextChars, n)}
                        \cup {{[i \in 1 .. n + 1 |-> "H"]}}]
           : n \in 0 .. MaxChars}

InitAlign ==
    /\ alignment \in Alignments
    /\ word_segments = <<>>
    /\ align_pc = "call"
    /\ AlignRestIdle

CallAlignmentToWordSegments ==
    /\ align_pc = "call"
    /\ LET r == AlignmentToWordSegments(alignment.characters,
                    alignment.character_start_times_seconds,
                    alignment.character_end_times_seconds, alignment.text)
       IN  /\ word_segments' = r.segments
           /\ align_pc' = IF r.raised THEN "raised" ELSE "returned"
    /\     /\ UNCHANGED <<alignment, alignRest>>

NextAlign == CallAlignmentToWordSegments

SpecAlign == InitAlign /\ [][NextAlign]_vars

---------------------------------------------------------------------------
(* animation.py: _calculate_cursor_alpha.  The multiplier is the fraction   *)
(* num / den.                                                               *)
(* SpecCursorAlpha: the reveal loop of create_single_reveal_animation,      *)
(* which asks for the multiplier of every frame index of range(reveal_frames) *)

\* (mutation of CalculateCursorAlpha: no branch for the full opacity)
CalculateCursorAlphaNoPlateau(frame_index, total_frames) ==
    IF frame_index <= total_frames - CURSOR_FADE_OUT_FRAMES
    THEN [num |-> frame_index, den |-> CURSOR_FADE_IN_FRAMES]
    ELSE [num |-> total_frames - frame_index, den |-> CURSOR_FADE_OUT_FRAMES]

\* _calculate_cursor_alpha(frame_idx, total_frames)
CalculateCursorAlpha(frame_index, total_frames) ==
    IF frame_index < CURSOR_FADE_IN_FRAMES
    THEN [num |-> frame_index, den |-> CURSOR_FADE_IN_FRAMES]
    ELSE IF frame_index > total_frames - CURSOR_FADE_OUT_FRAMES
         THEN [num |-> total_frames - frame_index,
               den |-> CURSOR_FADE_OUT_FRAMES]
    ELSE [num |-> 1, den |-> 1]

InitCursorAlpha ==
    /\ reveal_frames \in 0 .. MaxRevealFrames
    /\ cursor_frame_idx = 0
    /\ cursor_alphas = <<>>
    /\ CursorRestIdle

\* one iteration of: for frame_idx in range(reveal_frames), as far as the
\* cursor's opacity goes
CursorAlphaOfFrame ==
    /\ cursor_frame_idx < reveal_frames
    /\ cursor_alphas' = Append(cursor_alphas,
                            CalculateCursorAlpha(cursor_frame_idx, reveal_frames))
    /\ cursor_frame_idx' = cursor_frame_idx + 1
    /\     /\ UNCHANGED <<reveal_frames, cursorRest>>

NextCursorAlpha == CursorAlphaOfFrame

SpecCursorAlpha == InitCursorAlpha /\ [][NextCursorAlpha]_vars

---------------------------------------------------------------------------
(* animation.py: _draw_cursor_on_frame.  A frame is a function from the    *)
(* pixel <<x, y>> to a channel value 0 .. 255 (the three channels are      *)
(* blended alike); the sprite has one colour and one alpha value, and      *)
(* side x side pixels, which pencil_cursor_size need not equal.            *)
(* SpecDraw: one call on a small frame, for cursor positions on, across    *)
(* and off the frame.                                                      *)

DrawPixels == (0 .. DrawWidth - 1) \X (0 .. DrawHeight - 1)

\* the frame handed to the function
InitialPixel(x, y) == 10 + 20 * x + 5 * y
SpriteColour == 200
SpriteAlpha == 255

\* y1, y2, x1, x2: the frame bounds of the cursor, clipped to the frame
FrameBounds(cursor_x, cursor_y, size) ==
    LET cursor_half == size \div 2
    IN  [y1 |-> Max(0, cursor_y - cursor_half),
         y2 |-> Min(DrawHeight, cursor_y + cursor_half),
         x1 |-> Max(0, cursor_x - cursor_half),
         x2 |-> Min(DrawWidth, cursor_x + cursor_half)]

\* (mutation of CursorBounds: the whole sprite, whatever the clipping)
CursorBoundsWhole(cursor_x, cursor_y, size) ==
    [cy1 |-> 0, cy2 |-> size, cx1 |-> 0, cx2 |-> size]

\* cy1, cy2, cx1, cx2: the part of the sprite that falls on the frame
CursorBounds(cursor_x, cursor_y, size) ==
    LET cursor_half == size \div 2
        b == FrameBounds(cursor_x, cursor_y, size)
    IN  [cy1 |-> Max(0, cursor_half - (cursor_y - b.y1)),
         cy2 |-> Min(size, cursor_half + (b.y2 - cursor_y)),
         cx1 |-> Max(0, cursor_half - (cursor_x - b.x1)),
         cx2 |-> Min(size, cursor_half + (b.x2 - cursor_x))]

\* len(range(side)[lo:hi]) for 0 <= lo: the extent of a slice of the sprite
SliceLen(lo, hi, side) == Max(0, Min(hi, side) - Min(lo, side))

\* the three nested conditions under which the blend is done
DrawHappens(cursor_x, cursor_y, size, side) ==
    LET b == FrameBounds(cursor_x, cursor_y, size)
        c == CursorBounds(cursor_x, cursor_y, size)
    IN  /\ b.y2 > b.y1 /\ b.x2 > b.x1
        /\ c.cy2 > c.cy1 /\ c.cx2 > c.cx1
        /\ SliceLen(c.cy1, c.cy2, side) = b.y2 - b.y1
        /\ SliceLen(c.cx1, c.cx2, side) = b.x2 - b.x1

\* alpha * cursor + (1 - alpha) * frame with alpha = (a / 255) * multiplier,
\* stored into the uint8 frame (the fraction dropped)
Blend(old, multiplier) ==
    LET num == SpriteAlpha * multiplier.num
        den == 255 * multiplier.den
    IN  (num * SpriteColour + (den - num) * old) \div den

\* (mutation of InFrameRegion: whole rows written)
InFrameRows(x, y, b) == b.y1 <= y /\ y < b.y2

\* the pixels of frame[y1:y2, x1:x2]
InFrameRegion(x, y, b) ==
    /\ b.x1 <= x /\ x < b.x2
    /\ b.y1 <= y /\ y < b.y2

\* the frame after _draw_cursor_on_frame
DrawCursorOnFrame(old, cursor_x, cursor_y, size, side, multiplier) ==
    IF ~DrawHappens(cursor_x, cursor_y, size, side) THEN old
    ELSE [p \in DrawPixels |->
            IF InFrameRegion(p[1], p[2], FrameBounds(cursor_x, cursor_y, size))
            THEN Blend(old[p], multiplier) ELSE old[p]]

AlphaMultipliers ==
    {[num |-> 0, den |-> CURSOR_FADE_IN_FRAMES],
     [num |-> 10, den |-> CURSOR_FADE_IN_FRAMES], [num |-> 1, den |-> 1]}

InitDraw ==
    /\ draw_args \in [cursor_x : -3 .. DrawWidth + 3,
                       cursor_y : -3 .. DrawHeight + 3,
                       pencil_cursor_size : {2, 3, 8, 9},
                       side_offset : {-1, 0, 1},
                       alpha_multiplier : AlphaMultipliers]
    /\ frame = [p \in DrawPixels |-> InitialPixel(p[1], p[2])]
    /\ draw_pc = "call"
    /\ DrawRestIdle

CallDrawCursorOnFrame ==
    /\ draw_pc = "call"
    /\ frame' = DrawCursorOnFrame(frame, draw_args.cursor_x, draw_args.cursor_y,
                     draw_args.pencil_cursor_size,
                     draw_args.pencil_cursor_size + draw_args.side_offset,
                     draw_args.alpha_multiplier)
    /\ draw_pc' = "returned"
    /\     /\ UNCHANGED <<draw_args, drawRest>>

NextDraw == CallDrawCursorOnFrame

SpecDraw == InitDraw /\ [][NextDraw]_vars

---------------------------------------------------------------------------
(* animation/path_generator.py: create_diagonal_reveal_mask.  The diagonal  *)
(* direction (cos, sin) of an angle is given by a pair of integers with a   *)
(* common positive factor taken out, which leaves the sign of a projection  *)
(* unchanged; the projection is computed exactly.                           *)
(* SpecMask: one call, for small canvases and cursor positions on and off   *)
(* the canvas.                                                              *)

MaskAngles == {0, DIAGONAL_ANGLE, 90}

\* dx = cos(angle_rad), dy = sin(angle_rad), up to a positive factor
DiagonalDirection(angle_deg) ==
    CASE angle_deg = 0 -> [dx |-> 1, dy |-> 0]
      [] angle_deg = 45 -> [dx |-> 1, dy |-> 1]
      [] angle_deg = 90 -> [dx |-> 0, dy |-> 1]

\* projection = vx * dx + vy * dy with vx = xx - cursor_x, vy = yy - cursor_y
Projection(x, y, cursor_x, cursor_y, angle_deg) ==
    LET d == DiagonalDirection(angle_deg)
    IN  (x - cursor_x) * d.dx + (y - cursor_y) * d.dy

\* (mutation of MaskValue: a pixel on the line through the cursor is hidden)
MaskValueStrict(projection) == IF projection < 0 THEN 255 ELSE 0

\* (projection <= 0).astype(np.uint8) * 255
MaskValue(projection) == IF projection <= 0 THEN 255 ELSE 0

\* the mask, a function from the pixel <<x, y>> to its value
CreateDiagonalRevealMask(width, height, cursor_x, cursor_y, angle_deg) ==
    [p \in (0 .. width - 1) \X (0 .. height - 1) |->
        MaskValue(Projection(p[1], p[2], cursor_x, cursor_y, angle_deg))]

InitMask ==
    /\ mask_args \in [width : 1 .. MaxMaskSize, height : 1 .. MaxMaskSize,
                       cursor_x : -2 .. MaxMaskSize + 1,
                       cursor_y : -2 .. MaxMaskSize + 1,
                       angle_deg : MaskAngles]
    /\ mask = <<>>
    /\ mask_pc = "call"
    /\ MaskRestIdle

CallCreateDiagonalRevealMask ==
    /\ mask_pc = "call"
    /\ mask' = CreateDiagonalRevealMask(mask_args.width, mask_args.height,
                    mask_args.cursor_x, mask_args.cursor_y, mask_args.angle_deg)
    /\ mask_pc' = "returned"
    /\     /\ UNCHANGED <<mask_args, maskRest>>

NextMask == CallCreateDiagonalRevealMask

SpecMask == InitMask /\ [][NextMask]_vars

---------------------------------------------------------------------------
(* animation/path_generator.py: generate_diagonal_zigzag_path.  The numpy   *)
(* global generator is a state machine over RngStates: seeding replaces the *)
(* state, every draw advances it.  A position is the record of what it is   *)
(* computed from: the geometry, the frame, the frame count and the smoothed *)
(* amplitude variation of the frame.                                        *)
(* SpecPath: a run of calls, other uses of the generator in between.        *)

RngModulus == 8
RngStates == 0 .. RngModulus - 1

\* np.random.seed(seed): the state is a function of the seed alone
SeedState(seed) == seed % RngModulus

\* one draw advances the generator
NextRngState(state) == (5 * state + 3) % RngModulus

RECURSIVE AdvanceRng(_, _)
AdvanceRng(state, n) ==
    IF n <= 0 THEN state ELSE AdvanceRng(NextRngState(state), n - 1)

\* the value drawn in a state: uniform over [0.8, 1.2), in percent
UniformDraw(state) == 80 + 10 * (state % 4)

\* np.random.uniform(0.8, 1.2, n) from a state: n successive draws
Uniform(state, n) == [i \in RangeOf(n) |-> UniformDraw(AdvanceRng(state, i - 1))]

\* (mutation of StateAfterSeed: the generator is left as it was)
StateNotSeeded(state) == state

\* np.random.seed(42) at the start of every call
StateAfterSeed(state) == SeedState(PathSeed)

\* total_frames = int(reveal_duration * fps)
PathTotalFrames(duration, fps) == IntTrunc(duration * fps, TicksPerSecond)

\* np.convolve raises ValueError when one of its arrays is empty
ConvolveRaises(n) == n = 0

RECURSIVE SumDraws(_, _, _)
SumDraws(draws, lo, hi) ==
    IF lo > hi THEN 0 ELSE draws[lo] + SumDraws(draws, lo + 1, hi)

\* np.convolve(variations, np.ones(window) / window, mode='same')[frame]:
\* the moving sum of the draws within window // 2 of the frame, the array
\* padded with zeros (kept as the sum, window times the average); with
\* fewer draws than the window the result has window entries, so that
\* every frame has one
AmplitudeVariation(draws, f) ==
    SumDraws(draws, Max(1, f + 1 - SmoothingWindow \div 2),
                    Min(Len(draws), f + 1 + SmoothingWindow \div 2))

\* (x, y) of one frame
PathPosition(args, f, total, variation) ==
    [width |-> args.width, height |-> args.height,
     amplitude |-> args.amplitude, angle_deg |-> args.angle_deg,
     frame |-> f, total_frames |-> total, variation |-> variation]

\* the call from a generator state: the outcome, the path returned and the
\* generator state left behind
GenerateDiagonalZigzagPath(args, state) ==
    LET total == PathTotalFrames(args.reveal_duration, args.fps)
        seeded == StateAfterSeed(state)
        draws == Uniform(seeded, total)
    IN  [outcome |-> IF ConvolveRaises(total) THEN "ValueError" ELSE "returned",
         path |-> IF ConvolveRaises(total) THEN <<>>
                  ELSE [p \in RangeOf(total) |->
                          PathPosition(args, p - 1, total,
                                       AmplitudeVariation(draws, p - 1))],
         state |-> AdvanceRng(seeded, total)]

\* no time at all, the durations just below and at one frame of 60 fps, and
\* 0.25 s (15 frames at 60 fps)
PathDurations == {0, MaxPathTicks - 1, MaxPathTicks, 50}

PathArgs ==
    [width : {1280}, height : {720}, amplitude : {ZIG_ZAG_AMPLITUDE},
     angle_deg : {DIAGONAL_ANGLE}, reveal_duration : PathDurations,
     fps : {FPS}]

InitPath ==
    /\ rng_state \in RngStates
    /\ path_calls = <<>>
    /\ PathRestIdle

\* one call; the record keeps the generator state the call started from
CallGenerateDiagonalZigzagPath ==
    /\ Len(path_calls) < MaxPathCalls
    /\ \E args \in PathArgs :
          LET r == GenerateDiagonalZigzagPath(args, rng_state)
          IN  /\ path_calls' = Append(path_calls,
                    [args |-> args, rng_before |-> rng_state,
                     outcome |-> r.outcome, path |-> r.path])
              /\ rng_state' = r.state
    /\ UNCHANGED pathRest

\* another use of the global generator: a draw
OtherDraw ==
    /\ rng_state' = NextRngState(rng_state)
    /\     /\ UNCHANGED <<path_calls, pathRest>>

\* another use of the global generator: np.random.seed(seed)
OtherSeed ==
    /\ \E seed \in {0, 7} : rng_state' = SeedState(seed)
    /\     /\ UNCHANGED <<path_calls, pathRest>>

NextPath == CallGenerateDiagonalZigzagPath \/ OtherDraw \/ OtherSeed

SpecPath == InitPath /\ [][NextPath]_vars

---------------------------------------------------------------------------
(* Input validation and frame synthesis of a multi-image reveal run.        *)
(* utils/config_utils.py: validate_image_configs; utils/cli_utils.py:       *)
(* parse_common_options; cli/pencil_reveal.py: _handle_multi_image_mode;    *)
(* video_writer.py: create_multi_reveal_video up to the end of its loop.    *)
(* An image reference is "file" (a local file that exists), "missing" (a    *)
(* local path with no file), "empty" (the url key with the empty string) or *)
(* "absent" (no image and no url key).                                      *)
(* SpecRun: the run started from the command line (run_cli), or             *)
(* create_multi_reveal_video called on the configs directly.                *)

RunEntries ==
    [image : {"file", "missing", "empty", "absent"},
     type : {"scene", "cover", "bogus"},
     direction : {"None", "sideways"}]

RunTimelines == UNION {[1 .. n -> RunEntries] : n \in 1 .. MaxRunEntries}

\* options of the run: all valid, an unknown ratio or quality, or a volume
\* outside [0, 1]
RunOptions == {"ok", "ratio", "volume"}

\* validate_image_configs on one entry (require_image_key, validate_types):
\* the error it exits with, "None" when the entry passes.  Path("") is the
\* current directory, which exists.
EntryValidationError(config) ==
    IF config.image = "absent" THEN "image"
    ELSE IF config.image = "missing" THEN "image"
    ELSE IF config.type \notin {"scene", "cover"} THEN "type"
    ELSE IF config.direction \notin {"None", "up", "down", "left", "right"}
         THEN "direction"
    ELSE "None"

\* validate_image_configs: the error of the first entry that fails
RECURSIVE ValidateFrom(_, _)
ValidateFrom(configs, i) ==
    IF i > Len(configs) THEN "None"
    ELSE IF EntryValidationError(configs[i]) # "None"
         THEN EntryValidationError(configs[i])
    ELSE ValidateFrom(configs, i + 1)

ValidateImageConfigs(configs) == ValidateFrom(configs, 1)

\* the checks at the top of one iteration of create_multi_reveal_video:
\* no image reference, then an invalid type
EntryCheckError(config) ==
    IF config.image \in {"absent", "empty"} THEN "image"
    ELSE IF config.type \notin {"scene", "cover"} THEN "type"
    ELSE "None"

\* load_and_resize_image raises for a local path with no file
LoadRaises(config) == config.image # "file"

InitRun ==
    /\ run_cli \in BOOLEAN
    /\ run_option \in RunOptions
    /\ run_configs \in RunTimelines
    /\ run_pc = IF run_cli THEN "validate" ELSE "dimensions"
    /\ run_idx = 0
    /\ run_synth = {}
    /\ run_error = "None"
    /\ RunRestIdle

\* _handle_multi_image_mode: load_and_validate_image_configs exits on the
\* first invalid entry
LoadAndValidateImageConfigs ==
    /\ run_pc = "validate"
    /\ run_error' = ValidateImageConfigs(run_configs)
    /\ run_pc' = IF ValidateImageConfigs(run_configs) = "None"
                 THEN "options" ELSE "aborted"
    /\     /\ UNCHANGED <<run_cli, run_option, run_configs, run_idx, run_synth,
                   runRest>>

\* parse_common_options: argparse rejects an unknown ratio or quality, the
\* volume is checked after parsing
ParseCommonOptions ==
    /\ run_pc = "options"
    /\ run_error' = IF run_option = "ok" THEN "None" ELSE run_option
    /\ run_pc' = IF run_option = "ok" THEN "dimensions" ELSE "aborted"
    /\     /\ UNCHANGED <<run_cli, run_option, run_configs, run_idx, run_synth,
                   runRest>>

\* create_multi_reveal_video before its loop: calculate_dimensions raises
\* for an unknown ratio or quality; the volume is not looked at
CalculateDimensionsStep ==
    /\ run_pc = "dimensions"
    /\ run_error' = IF run_option = "ratio" THEN "ratio" ELSE "None"
    /\ run_pc' = IF run_option = "ratio" THEN "aborted" ELSE "loop"
    /\     /\ UNCHANGED <<run_cli, run_option, run_configs, run_idx, run_synth,
                   runRest>>

\* one iteration of the loop: the checks, the load, then the frames of a
\* scene entry are synthesized
RunEntry ==
    /\ run_pc = "loop"
    /\ run_idx < Len(run_configs)
    /\ LET config == run_configs[run_idx + 1]
           error == IF EntryCheckError(config) # "None"
                    THEN EntryCheckError(config)
                    ELSE IF LoadRaises(config) THEN "image" ELSE "None"
       IN  /\ run_error' = error
           /\ run_pc' = IF error = "None" THEN "loop" ELSE "aborted"
           /\ run_idx' = IF error = "None" THEN run_idx + 1 ELSE run_idx
           /\ run_synth' = IF error = "None" /\ config.type = "scene"
                           THEN run_synth \cup {run_idx}
                           ELSE run_synth
    /\     /\ UNCHANGED <<run_cli, run_option, run_configs, runRest>>

\* the loop is over: the frames go to the writer
RunLoopDone ==
    /\ run_pc = "loop"
    /\ run_idx = Len(run_configs)
    /\ run_pc' = "write"
    /\     /\ UNCHANGED <<run_cli, run_option, run_configs, run_idx, run_synth,
                   run_error, runRest>>

NextRun ==
    \/ LoadAndValidateImageConfigs
    \/ ParseCommonOptions
    \/ CalculateDimensionsStep
    \/ RunEntry
    \/ RunLoopDone

SpecRun == InitRun /\ [][NextRun]_vars

---------------------------------------------------------------------------
(* SpecScene: the frames create_multi_reveal_video renders for one scene    *)
(* entry, for every duration of an even number of ticks (so that            *)
(* seconds * 0.5 is a whole number of ticks) whose reveal half holds a      *)
(* frame (4 ticks of 5 ms at 60 frames per second)                          *)

InitScene ==
    /\ scene_seconds \in {2 * h : h \in 4 .. MaxSceneHalfTicks}
    /\ scene_frames = <<>>
    /\ scene_pc = "call"
    /\ SceneRestIdle

\* frames = create_single_reveal_animation(main_image, ..., reveal_duration,
\* total_duration, ZIG_ZAG_AMPLITUDE) of a scene entry
RenderScene ==
    /\ scene_pc = "call"
    /\ scene_frames' = SceneFrames(0, scene_seconds)
    /\ scene_pc' = "rendered"
    /\     /\ UNCHANGED <<scene_seconds, sceneRest>>

NextScene == RenderScene

SpecScene == InitScene /\ [][NextScene]_vars

---------------------------------------------------------------------------
(* captions/caption_overlay.py: load_captions and the loaders it chooses    *)
(* between.  The JSON value is a record: kind "list" with its items, kind   *)
(* "dict" with the values of its keys alignment, normalized_alignment and   *)
(* text, or kind "scalar".  A key's value is {} when the key is absent      *)
(* (None) and {v} when it holds a list v; an alignment value is "absent",   *)
(* "scalar" (present, not an object) or "dict" with its three arrays.       *)
(* SpecLoad: load_captions on every such value.                             *)

\* the items of a caption array: objects with or without text, start and
\* end, and an item that is no object
CaptionItems ==
    [object : {TRUE}, text : {{}, {"a"}}, start : {{}, {0}}, end : {{}, {1}}]
    \cup [object : {FALSE}, text : {{}}, start : {{}}, end : {{}}]

TimeArrays == {{}} \cup {{[i \in 1 .. n |-> 2 * i]} : n \in 0 .. MaxLoadLen + 1}

AlignValues ==
    [kind : {"absent", "scalar"}, characters : {{}},
     character_start_times_seconds : {{}}, character_end_times_seconds : {{}}]
    \cup [kind : {"dict"},
          characters : {{}} \cup UNION {{{s} : s \in SeqsOf(AlignChars, n)}
                                          : n \in 0 .. MaxLoadLen},
          character_start_times_seconds : TimeArrays,
          character_end_times_seconds : TimeArrays]

\* an alignment object with one character, "h" from 2 to 3
OneCharAlignment ==
    [kind |-> "dict", characters |-> {<<"h">>},
     character_start_times_seconds |-> {<<2>>},
     character_end_times_seconds |-> {<<3>>}]

AbsentAlignment ==
    [kind |-> "absent", characters |-> {},
     character_start_times_seconds |-> {}, character_end_times_seconds |-> {}]

CaptionData ==
    [kind : {"list"},
     items : UNION {[1 .. n -> CaptionItems] : n \in 0 .. MaxLoadLen},
     alignment : {AbsentAlignment}, normalized_alignment : {AbsentAlignment}]
    \cup [kind : {"dict"}, items : {<<>>}, alignment : AlignValues,
          normalized_alignment : {AbsentAlignment, OneCharAlignment}]
    \cup [kind : {"scalar"}, items : {<<>>}, alignment : {AbsentAlignment},
          normalized_alignment : {AbsentAlignment}]

\* the truth value Python gives an alignment value: None and the object
\* without keys are false
Truthy(align) ==
    \/ align.kind = "scalar"
    \/ /\ align.kind = "dict"
       /\ \/ align.characters # {}
          \/ align.character_start_times_seconds # {}
          \/ align.character_end_times_seconds # {}

\* data.get("alignment") or data.get("normalized_alignment")
AlignmentOf(data) ==
    IF Truthy(data.alignment) THEN data.alignment ELSE data.normalized_alignment

TheList(opt) == CHOOSE v \in opt : TRUE

\* _is_elevenlabs_alignment_payload
IsElevenlabsAlignmentPayload(data) ==
    /\ data.kind = "dict"
    /\ LET align == AlignmentOf(data)
       IN  /\ align.kind = "dict"
           /\ align.characters # {}
           /\ align.character_start_times_seconds # {}
           /\ align.character_end_times_seconds # {}
           /\ Len(TheList(align.characters))
                 = Len(TheList(align.character_start_times_seconds))
           /\ Len(TheList(align.character_start_times_seconds))
                 = Len(TheList(align.character_end_times_seconds))

\* not x, for a key's value: None or the empty list
Falsy(opt) == opt = {} \/ TheList(opt) = <<>>

\* load_captions_from_elevenlabs_alignment: [raised, segments]
LoadCaptionsFromElevenlabsAlignment(data) ==
    LET align == AlignmentOf(data)
    IN  IF ~Truthy(align) THEN [raised |-> TRUE, segments |-> <<>>]
        ELSE IF \/ Falsy(align.characters)
                \/ Falsy(align.character_start_times_seconds)
                \/ Falsy(align.character_end_times_seconds)
             THEN [raised |-> TRUE, segments |-> <<>>]
        ELSE AlignmentToWordSegments(TheList(align.characters),
                 TheList(align.character_start_times_seconds),
                 TheList(align.character_end_times_seconds), {})

\* text is None or start is None or end is None, or the item is no object
BadItem(item) ==
    ~item.object \/ item.text = {} \/ item.start = {} \/ item.end = {}

\* load_captions_from_json_data: [raised, segments]
LoadCaptionsFromJsonData(data) ==
    IF data.kind # "list" THEN [raised |-> TRUE, segments |-> <<>>]
    ELSE IF \E i \in 1 .. Len(data.items) : BadItem(data.items[i])
         THEN [raised |-> TRUE, segments |-> <<>>]
    ELSE [raised |-> FALSE,
          segments |-> [i \in 1 .. Len(data.items) |->
                          [text |-> <<TheList(data.items[i].text)>>,
                           start |-> TheList(data.items[i].start),
                           end |-> TheList(data.items[i].end)]]]

\* load_captions on the parsed value
LoadCaptions(data) ==
    IF IsElevenlabsAlignmentPayload(data)
    THEN LoadCaptionsFromElevenlabsAlignment(data)
    ELSE LoadCaptionsFromJsonData(data)

InitLoad ==
    /\ caption_data \in CaptionData
    /\ loaded = <<>>
    /\ load_pc = "call"
    /\ LoadRestIdle

CallLoadCaptions ==
    /\ load_pc = "call"
    /\ loaded' = LoadCaptions(caption_data).segments
    /\ load_pc' = IF LoadCaptions(caption_data).raised
                  THEN "raised" ELSE "returned"
    /\     /\ UNCHANGED <<caption_data, loadRest>>

NextLoad == CallLoadCaptions

SpecLoad == InitLoad /\ [][NextLoad]_vars

---------------------------------------------------------------------------
(* The pixel buffers of animation.py: create_single_reveal_animation and    *)
(* animation/pan_zoom_animation.py: create_pan_zoom_animation.  The heap is *)
(* the list of the arrays allocated, a frame is the position of its array   *)
(* in the heap, the content of an array is the set of what was written into *)
(* it.  Buffer 1 is the source image.                                       *)
(* SpecBuffers: one call, then in-place writes of a later stage (the        *)
(* caption overlay) to frames of the list returned.                         *)

SourceBuffer == 1
SourceContent == {"image"}

\* (mutation of Copy: a view of the array, no new array)
CopyIsView(h, b) == [heap |-> h, ref |-> b]

\* array.copy(): a new array with the content of the array
Copy(h, b) == [heap |-> Append(h, h[b]), ref |-> Len(h) + 1]

\* np.where(mask_3d, main_image, white_canvas), cv2.resize(image, ...): a
\* new array computed from the array
Derived(h, b, what) == [heap |-> Append(h, h[b] \cup {what}), ref |-> Len(h) + 1]

\* an in-place write into the array b: frame[y1:y2, x1:x2, c] = ...
WriteInto(h, b, what) == [h EXCEPT ![b] = h[b] \cup {what}]

\* the reveal loop: np.where gives the frame, the cursor is drawn into it
RECURSIVE RevealBuffers(_, _, _)
RevealBuffers(h, refs, n) ==
    IF n = 0 THEN [heap |-> h, refs |-> refs]
    ELSE LET made == Derived(h, SourceBuffer, "mask")
         IN  RevealBuffers(WriteInto(made.heap, made.ref, "cursor"),
                           Append(refs, made.ref), n - 1)

\* for _ in range(hold_frames): frames.append(main_image.copy())
RECURSIVE HoldBuffers(_, _, _)
HoldBuffers(h, refs, n) ==
    IF n = 0 THEN [heap |-> h, refs |-> refs]
    ELSE LET made == Copy(h, SourceBuffer)
         IN  HoldBuffers(made.heap, Append(refs, made.ref), n - 1)

\* frame = zoomed_image[crop_y:crop_y+height, crop_x:crop_x+width].copy()
RECURSIVE PanBuffers(_, _, _, _)
PanBuffers(h, refs, zoomed, n) ==
    IF n = 0 THEN [heap |-> h, refs |-> refs]
    ELSE LET made == Copy(h, zoomed)
         IN  PanBuffers(made.heap, Append(refs, made.ref), zoomed, n - 1)

\* the buffers of create_single_reveal_animation
RevealAnimationBuffers(nReveal, nHold) ==
    LET shown == RevealBuffers(<<SourceContent>>, <<>>, nReveal)
    IN  HoldBuffers(shown.heap, shown.refs, nHold)

\* the buffers of create_pan_zoom_animation: the zoomed image is resized
\* from the source once
PanAnimationBuffers(nFrames) ==
    LET zoomed == Derived(<<SourceContent>>, SourceBuffer, "zoom")
    IN  PanBuffers(zoomed.heap, <<>>, zoomed.ref, nFrames)

InitBuffers ==
    /\ buf_args \in [fn : {"reveal"}, reveal : 0 .. MaxBufFrames,
                      rest : 0 .. MaxBufFrames]
                  \cup [fn : {"pan"}, reveal : {0}, rest : 0 .. MaxBufFrames]
    /\ heap = <<SourceContent>>
    /\ frame_refs = <<>>
    /\ written = {}
    /\ buf_pc = "call"
    /\ BufRestIdle

CallAnimation ==
    /\ buf_pc = "call"
    /\ LET r == IF buf_args.fn = "reveal"
                THEN RevealAnimationBuffers(buf_args.reveal, buf_args.rest)
                ELSE PanAnimationBuffers(buf_args.rest)
       IN  heap' = r.heap /\ frame_refs' = r.refs
    /\ buf_pc' = "returned"
    /\     /\ UNCHANGED <<buf_args, written, bufRest>>

\* a later stage writes into frame i of the list in place
OverlayFrame ==
    /\ buf_pc = "returned"
    /\ \E i \in 1 .. Len(frame_refs) :
          /\ i \notin written
          /\ heap' = WriteInto(heap, frame_refs[i], "caption")
          /\ written' = written \cup {i}
    /\     /\ UNCHANGED <<buf_args, frame_refs, buf_pc, bufRest>>

NextBuffers == CallAnimation \/ OverlayFrame

SpecBuffers == InitBuffers /\ [][NextBuffers]_vars

---------------------------------------------------------------------------
(* The numbers of generate_diagonal_zigzag_path.  The floating-point        *)
(* values are kept in fixed point: angles, sines and the progress in        *)
(* 1/10^8, lengths in 1/10^4 pixel; every product is divided before it can  *)
(* leave 32 bits.  The error of a position is below 1/1000 pixel.           *)
(* SpecWipe: the reveal loop of create_single_reveal_animation, one frame   *)
(* per step, the cursor of the frame and of the frame before it kept.       *)

FixedOne == 10 ^ 8
PixelOne == 10 ^ 4

\* [q, r] with a * b = q * c + r and 0 <= r < c, for 0 <= a < c
RECURSIVE MulRem(_, _, _)
MulRem(a, b, c) ==
    IF b = 0 THEN [q |-> 0, r |-> 0]
    ELSE LET h == MulRem(a, b \div 2, c)
             t == 2 * h.r + (IF b % 2 = 1 THEN a ELSE 0)
         IN  [q |-> 2 * h.q + (t \div c), r |-> t % c]

\* a * b / c rounded down, for a, b >= 0 and c > 0
MulDiv(a, b, c) == (a \div c) * b + MulRem(a % c, b, c).q

\* Newton's iteration for the square root, from above
RECURSIVE NewtonSqrt(_, _)
NewtonSqrt(n, x) ==
    LET y == (x + MulDiv(n, FixedOne, x)) \div 2
    IN  IF y >= x THEN x ELSE NewtonSqrt(n, y)

\* np.sqrt(n) in 1/10^4, for 100 <= n
Sqrt4(n) == NewtonSqrt(n, n * 1000)

\* the divisors of the nested form of the sine series up to x^13:
\* x (1 - x^2/6 (1 - x^2/20 (1 - x^2/42 (1 - ... x^2/156))))
SinDivisors == <<156, 110, 72, 42, 20, 6>>

RECURSIVE SinSeries(_, _, _)
SinSeries(x2, t, i) ==
    IF i > Len(SinDivisors) THEN t
    ELSE SinSeries(x2, FixedOne - (MulDiv(x2, t, FixedOne) \div SinDivisors[i]),
                   i + 1)

\* np.sin(2 * np.pi * u) in 1/10^8, for u in [0, 1) given in 1/10^8: the
\* angle brought into the first quarter turn, then the series
Sin8(u8) ==
    LET quarter == FixedOne \div 4
        v == IF u8 < quarter THEN u8
             ELSE IF u8 < 2 * quarter THEN 2 * quarter - u8
             ELSE IF u8 < 3 * quarter THEN u8 - 2 * quarter
             ELSE FixedOne - u8
        x == MulDiv(v, TWO_PI, FixedOne)
        s == MulDiv(x, SinSeries(MulDiv(x, x, FixedOne), FixedOne, 1), FixedOne)
    IN  IF u8 < 2 * quarter THEN s ELSE 0 - s

\* dx = np.cos(angle_rad), dy = np.sin(angle_rad), in 1/10^8
DirCos8(angle_deg) ==
    IF angle_deg = 0 THEN FixedOne ELSE IF angle_deg = 90 THEN 0 ELSE COS_45
DirSin8(angle_deg) ==
    IF angle_deg = 0 THEN 0 ELSE IF angle_deg = 90 THEN FixedOne ELSE COS_45

\* the (x, y) of a position: the loop body of generate_diagonal_zigzag_path.
\* progress = lp * lp * (3 - 2 * lp) with lp = frame / total_frames is
\* N / T3 exactly; unit is the value 1.0 of a draw, pos.variation the moving
\* sum of the draws.
PathXY(pos, unit) ==
    LET T3 == pos.total_frames * pos.total_frames * pos.total_frames
        N == pos.frame * pos.frame * (3 * pos.total_frames - 2 * pos.frame)
        \* diagonal_length = np.sqrt(width**2 + height**2) * 1.5
        length == (3 * Sqrt4(pos.width * pos.width + pos.height * pos.height))
                  \div 2
        \* dist_along_diagonal = progress * diagonal_length
        dist == MulDiv(N, length, T3)
        dx == DirCos8(pos.angle_deg)
        dy == DirSin8(pos.angle_deg)
        \* np.sin(frequency * progress * 2 * np.pi) with frequency = 4
        sine == Sin8(MulDiv((4 * N) % T3, FixedOne, T3))
        \* zig_offset = amplitude * amplitude_variations[frame] * sine
        zig == MulDiv(MulDiv(pos.variation, IF sine < 0 THEN 0 - sine ELSE sine,
                             FixedOne),
                      pos.amplitude * PixelOne, SmoothingWindow * unit)
        side == IF sine < 0 THEN 0 - 1 ELSE 1
        \* pos_x = base_x + zig_offset * (-dy), pos_y = base_y + zig_offset * dx
        pos_x == MulDiv(dist, dx, FixedOne) - START_OFFSET * PixelOne
                 - side * MulDiv(zig, dy, FixedOne)
        pos_y == MulDiv(dist, dy, FixedOne) - START_OFFSET * PixelOne
                 + side * MulDiv(zig, dx, FixedOne)
    IN  [x |-> IntTrunc(pos_x, PixelOne), y |-> IntTrunc(pos_y, PixelOne)]

\* np.random.uniform(0.8, 1.2, n) after np.random.seed(42): the first draws
\* of the generator, in 1/10^6
DrawUnit == 10 ^ 6
Seed42Draws ==
    <<949816, 1180286, 1092798, 1039463, 862407, 862398, 823233, 1146470,
      1040446, 1083229, 808234, 1187964, 1132977, 884936, 872730, 873362,
      921697, 1009903, 972778, 916492, 1044741, 855798, 916858, 946545,
      982428, 1114070, 879870, 1005694, 1036966, 818580, 1043018, 868210,
      826021, 1179554, 1186253, 1123359, 921846, 839069, 1073693, 976061,
      848815, 998071, 813755, 1163728, 903512, 1065009, 924684, 1008027,
      1018684, 873942, 1187834, 1110053, 1175800, 1157931, 1039160, 1168750,
      835397, 878393, 818091, 930132, 955471, 908540, 1131495, 942701,
      912374, 1017078, 856370, 1120879, 829820, 1194755, 1108898, 879486,
      802209, 1126185, 1082743, 1091603, 1108508, 829618, 943386, 846348,
      1145241, 1049319, 932359, 825423, 924393, 930073, 1091842, 1055023,
      1154885, 988886, 847838, 1085298, 1104314, 1024511, 1108387, 997518,
      1009093, 971016, 810168, 843157, 812572, 1054564, 925742, 1003428,
      1163027, 899717, 964153, 1102220, 891519, 830792, 915901, 864489,
      1171879, 1123248, 1053362, 1148584, 1121469, 874628, 1157024, 1015737,
      1122976, 1158437, 927201, 844021, 891174, 970843, 1127206, 1144292,
      802781, 1004299, 966964, 888843, 847946, 935046, 1177164, 929281,
      1007516, 1081208, 945452, 1188713, 1184979, 900713, 998899, 920351,
      913936, 814755, 1043826, 1001072, 820592, 911459, 1163306, 895825,
      857958, 995781, 1194260, 896822, 1068854, 1104648, 895055, 1091287,
      947113, 1052922, 1053412, 1014310, 836116, 1134121, 928312, 874607,
      816310, 1036357, 1071026, 806635, 1004837, 890598, 1058069, 869747,
      1076375, 954694, 1174692, 855008, 936427, 845389, 1169877, 1150936,
      903177, 1063994, 1126889, 1022080, 1011860, 896741, 837241, 1158886,
      1160167, 1053241, 935612, 939684, 1090382, 1158844, 1154835, 1111950,
      1056813, 833656, 864651, 1159422, 1042572, 803679, 840589, 1065401,
      802025, 864323, 1019494, 1076758, 1060785, 889708, 1084872, 894900,
      930160, 1098597, 1059853, 1139689, 1063045, 1027323, 837470, 947086,
      906081, 897596, 1189204, 957239, 1156819, 1052455, 1117925, 1001055,
      1030762, 997007, 878097, 1088981, 912309, 809726, 1058189, 870844,
      1176183, 1181571, 1165946, 948063, 806183, 1171327, 971274, 1186662,
      1185448, 1141204, 917780, 954039, 1140455, 926769, 867797, 1022721,
      1174462, 1078412, 1028024, 838871, 1046003, 1196022, 856034, 1007332,
      1150949, 1096307, 1078806, 1080994, 943796, 917437, 1123744, 1124045,
      1146829, 1165296, 1004537, 1000607, 1119318, 1059986, 1080787, 1118317,
      1156002, 935198, 950233, 837593, 1031312, 814377, 986239, 1017058,
      914617, 1036333, 812200, 814939, 1129040, 944076, 850824, 1008897,
      1107997, 886328, 1049156, 834139, 820673, 1012542, 1016254, 1054972,
      1090437, 1190341, 1006520, 929183, 1118074, 908333, 975589, 831383,
      810140, 1185059, 1134392, 1078390, 963581, 869318, 862575, 900097,
      1019691, 1085838, 1064079, 911974, 1181946, 1095159, 1021742, 1044688,
      967840, 899092, 942389, 1103138, 805757, 846429, 818401, 816292,
      1142184, 1081463, 989670, 839134, 996646, 989389, 869281, 973541,
      959402, 1046340, 1054037, 818122, 949845, 1050344, 1001255, 1142596,
      1063477, 865174, 828227, 1056968, 810605, 1034310, 1176092, 1030190,
      955268, 1057315, 983301, 1018247, 1176586, 954441, 1184476, 1162140,
      878316, 827745, 840311, 807289, 837777, 1073203, 828475, 927590,
      1137950, 809309, 1125787, 912742, 847266, 1078695, 1051577, 1150989,
      1094028, 1121392, 912814, 870976, 1100246, 1122734, 1196202, 965047,
      948807, 1110565, 936321, 1172303, 1143365, 971598, 1100348, 1101817,
      841250, 1161021, 1002101, 1130583, 928020, 1158209, 955681, 804335,
      1162153, 836515, 927725, 1180025, 1180243, 1029375, 1052735, 979378,
      917284, 931466, 1069007, 1100950, 1116632, 1115847, 836482, 997768,
      823024, 1019812, 976612, 1155082, 940366, 846827, 857197, 1104604,
      1047287, 840449, 833643, 1080388, 829105, 1128744, 1082497, 832540,
      833935, 1194656, 949708, 948257, 1125120, 1178899, 1194400, 1101351,
      950504, 833400, 1110859, 1023362, 969689, 1162542, 844479, 997050,
      804541, 987464, 822521, 847527, 847010, 1059684, 1098418, 1033348,
      1184869, 949948, 914285, 1147440, 889438, 1185289, 804862, 1187952,
      817264, 1156457, 1011080, 1197186, 829519, 1021542, 1187721, 1009239,
      1051759, 1078299, 981816, 1051023, 1033726, 1160463, 818179, 912385,
      1180165, 1156106, 982263, 1048053, 910952, 875248, 985479, 941341,
      1033462, 831094, 1189758, 1194484, 1079265, 1014439, 923811, 1125518,
      1073892, 865047, 1164371, 1129015, 1179920, 1090288, 1045366, 967297,
      1173091, 1146426, 818087, 810547, 950585, 1124221, 1194910, 860167,
      1037652, 952356, 1187966, 1136848, 1135331, 987477, 965928, 909363,
      822550, 1145889, 1125160, 1199887, 1198655, 1022173, 1107595, 1177906,
      1139859, 898939, 980218, 851664, 1181620, 1042470, 891457, 1068680,
      1047251, 943265, 845423, 1068629, 1008123, 1108927, 1008065, 1140873,
      1020763, 1024375, 1150661, 961393, 853606, 811513, 1102055, 1048124,
      1081632, 885186, 854549, 805818, 940235, 1035967, 956898, 974990,
      1161663, 939302, 1005596, 1113461, 958617, 1048835, 1144945, 1179808,
      858829, 1170635, 996847, 903298, 983654, 1192013, 997047, 931501,
      1053360, 896058, 830345, 851552, 851218, 860761, 855531, 1056350,
      872752, 938267, 1158715, 989585, 1067023, 868928, 876916, 816347,
      867574, 911436, 870804, 835481, 848254, 984312, 882533, 945708,
      1001367, 1076158, 815725, 1119764, 1051160, 832704, 1149431, 1168349,
      824431, 910751, 1122481, 1099304, 873808, 883740, 948189, 993809,
      1047302, 947565, 985014, 1098988, 814673, 900975, 1085340, 1158083,
      1004671, 1012845, 842869, 978965, 1013047, 896988, 907697, 950914,
      808028, 928832, 884579, 930999, 847905, 1156211, 1037437, 1071641,
      1115668, 999377, 834768, 1014843, 1034736, 1098176, 972664, 851032,
      913510, 945233, 1058367, 1028311, 942439, 1194606, 1042310, 894891,
      840713, 861144, 898383, 864273, 874627, 914038, 869349, 1158706,
      832093, 1009805, 964159, 1192951, 844816, 959142, 1187788, 1146203,
      1126829, 903161, 868355, 1067457, 1171750, 1022705, 1028645, 911992,
      1107797, 874817>>

\* the 9:16 canvases of 480p and 720p (the default canvas)
WipeCanvases ==
    {CalculateDimensions(DEFAULT_ASPECT_RATIO, q) : q \in {480, DEFAULT_QUALITY}}

\* reveal durations in ticks: DEFAULT_REVEAL_DURATION (3.0 s) and 11.5 s
WipeDurations == {3 * TicksPerSecond, (23 * TicksPerSecond) \div 2}

WipeTotalFrames == PathTotalFrames(wipe_args.reveal_duration, wipe_args.fps)

\* path[frame_idx] of the clip
WipePathEntry(f) ==
    PathXY(PathPosition(wipe_args, f, WipeTotalFrames,
               AmplitudeVariation(SubSeq(Seed42Draws, 1, WipeTotalFrames), f)),
           DrawUnit)

InitWipe ==
    /\ \E canvas \in WipeCanvases :
          wipe_args \in [width : {canvas.width}, height : {canvas.height},
                         amplitude : {ZIG_ZAG_AMPLITUDE},
                         angle_deg : {DIAGONAL_ANGLE},
                         reveal_duration : WipeDurations, fps : {FPS}]
    /\ wipe_frame = 0
    /\ wipe_prev = {}
    /\ wipe_cursor = {}
    /\ WipeRestIdle

\* one iteration of: for frame_idx in range(reveal_frames), as far as the
\* cursor and the mask go
RevealStep ==
    /\ wipe_frame < WipeTotalFrames
    /\ wipe_prev' = wipe_cursor
    /\ wipe_cursor' = {WipePathEntry(wipe_frame)}
    /\ wipe_frame' = wipe_frame + 1
    /\     /\ UNCHANGED <<wipe_args, wipeRest>>

NextWipe == RevealStep

SpecWipe == InitWipe /\ [][NextWipe]_vars

---------------------------------------------------------------------------
(* Claims about create_single_reveal_animation (SpecReveal) *)

---------------------------------------------------------------------------
(* Claims about the audio mux step and the cleanup (Spec) *)

MuxFailures == MuxOutcomes \ {"ok"}

\* C2: when the mux step has failed after the original video was renamed
\* aside, the original file name exists again and holds the original,
\* un-muxed video
C2_RollbackRestoresOriginal ==
    (pc = "raised" /\ mux_outcome \in MuxFailures)
        => (files["out"] = orig_video /\ Playable(files["out"]))

PlayableNames == {n \in {"out", "no_audio"} : Playable(files[n])}

\* C3: in every outcome of the mux step, once _add_audio_to_video and the
\* cleanup of the registered temp files have finished, exactly one playable
\* video remains among the output name and the _no_audio name
C3_ExactlyOnePlayable ==
    (exited /\ mux_outcome # "none") => Cardinality(PlayableNames) = 1

---------------------------------------------------------------------------
(* Claims about the multi-image reveal timeline (Spec) *)

\* the master sequence is complete: the loop and the cover step are over
MasterComplete ==
    pc \in {"write", "writing", "transcode", "mux", "upload", "returned"}

CoverEntries ==
    {i \in 0 .. Len(image_configs) - 1 : image_configs[i + 1].type = "cover"}
SceneEntries ==
    {i \in 0 .. Len(image_configs) - 1 : image_configs[i + 1].type = "scene"}
FirstCover == CHOOSE i \in CoverEntries : \A j \in CoverEntries : i <= j
FramePositionsOf(i) == {p \in 1 .. Len(all_frames) : all_frames[p].image = i}

\* C4: with any number of cover entries at any positions, only the first
\* cover entry is kept; its frames appear exactly once, as the last frames of
\* the master sequence and so after the frames of every scene (the scenes
\* listed after it included), and every later cover entry contributes no frame
C4_FirstCoverOnceAtEnd ==
    (MasterComplete /\ CoverEntries # {}) =>
        LET P == FramePositionsOf(FirstCover)
            n == Cardinality(P)
        IN  /\ n > 0
            /\ P = (Len(all_frames) - n + 1) .. Len(all_frames)
            /\ \A p \in P : /\ all_frames[p].kind = "hold"
                             /\ all_frames[p].idx = p - (Len(all_frames) - n + 1)
            /\ \A i \in SceneEntries : \A q \in FramePositionsOf(i) :
                   \A p \in P : q < p
            /\ \A j \in CoverEntries \ {FirstCover} : FramePositionsOf(j) = {}

\* C4 witness: a timeline cover, scene, cover whose master sequence is
\* complete: scene frames, then the frames of the first cover
C4_Witness ==
    /\ pc = "write"
    /\ Len(image_configs) = 3
    /\ CoverEntries = {0, 2}
    /\ FramePositionsOf(1) # {}
    /\ FramePositionsOf(0) # {}
    /\ all_frames[Len(all_frames)].image = 0

\* C5: a single-entry timeline whose entry is a cover produces exactly
\* round(1.0 * fps) frames, each the loaded (letterboxed) image of the entry,
\* whatever the entry's seconds, absent seconds included
C5_SingleCoverOneSecond ==
    (MasterComplete /\ Len(image_configs) = 1
                    /\ image_configs[1].type = "cover") =>
        /\ Len(all_frames) = PyRound(1 * FPS, 1)
        /\ \A p \in 1 .. Len(all_frames) :
              all_frames[p].image = 0 /\ all_frames[p].kind = "hold"

\* C5 witness: a single cover entry asking for 10 ticks (0.05 s), its 60
\* frames completely written
C5_Witness ==
    /\ pc = "transcode"
    /\ Len(image_configs) = 1
    /\ image_configs[1].type = "cover"
    /\ image_configs[1].seconds = {10}
    /\ Len(encoded) = FPS

---------------------------------------------------------------------------
(* Claims about the pan-zoom timeline (SpecPanZoom) *)

PanMasterComplete ==
    pc \in {"write", "writing", "transcode", "mux", "upload", "returned"}

\* C6: the master sequence is the concatenation of the per-entry sequences in
\* config order (frames of entry i before frames of entry j for i < j, the
\* frames of an entry in their order, none missing), and the encoder is
\* handed every frame of the master sequence once, in that order
C6_ConcatenatedAndWrittenInOrder ==
    /\ \A p, q \in 1 .. Len(all_frames) :
          p < q => \/ all_frames[p].image < all_frames[q].image
                   \/ /\ all_frames[p].image = all_frames[q].image
                      /\ all_frames[p].idx < all_frames[q].idx
    /\ \A i \in 0 .. idx - 1 :
          {all_frames[p].idx : p \in FramePositionsOf(i)} =
              0 .. PanTotalFrames(PanSeconds(image_configs[i + 1]), FPS) - 1
    /\ Len(encoded) <= Len(all_frames)
    /\ \A p \in 1 .. Len(encoded) : encoded[p] = all_frames[p]
    /\ (pc \in {"transcode", "mux", "upload", "returned"}
          => encoded = all_frames)

\* C6 witness: three entries, the second of several frames, all synthesized
\* and written
C6_Witness ==
    /\ pc = "transcode"
    /\ Len(image_configs) = 3
    /\ Cardinality(FramePositionsOf(1)) >= 3
    /\ FramePositionsOf(0) # {}
    /\ FramePositionsOf(2) # {}
    /\ encoded = all_frames

NoOverride ==
    /\ pan_direction = "None"
    /\ \A i \in 1 .. Len(image_configs) : image_configs[i].direction = "None"

\* C7: with no direction override anywhere, the entry at index i is panned
\* up when i is even and down when i is odd, for every timeline length
C7_ParityAlternation ==
    NoOverride =>
        /\ \A p \in 1 .. Len(all_frames) :
              all_frames[p].direction =
                  IF all_frames[p].image % 2 = 0 THEN "up" ELSE "down"
        /\ \A i \in 0 .. idx - 1 : FramePositionsOf(i) # {}

\* C7 witness: three entries without override, all synthesized
C7_Witness ==
    /\ NoOverride
    /\ pc = "write"
    /\ Len(image_configs) = 3
    /\ \E p, q \in 1 .. Len(all_frames) :
          /\ all_frames[p].image = 1 /\ all_frames[p].direction = "down"
          /\ all_frames[q].image = 2 /\ all_frames[q].direction = "up"

\* the direction the claim gives entry i: its own, else the root one, else
\* the parity default
ClaimedDirection(i) ==
    IF image_configs[i + 1].direction # "None" THEN image_configs[i + 1].direction
    ELSE IF pan_direction # "None" THEN pan_direction
    ELSE IF i % 2 = 0 THEN "up" ELSE "down"

\* C8: an entry carrying a direction is rendered with it, the root-level
\* direction is used for the entries without their own, and a per-entry
\* direction wins over the root-level one
C8_DirectionOverride ==
    \A p \in 1 .. Len(all_frames) :
        all_frames[p].direction = ClaimedDirection(all_frames[p].image)

---------------------------------------------------------------------------
(* Claims about create_pan_zoom_animation (SpecPan) *)

PanStarted == "pan" \in DOMAIN pz /\ pz.pan # {}
PanRoomBefore == AvailBefore(PanAxisSize(pz.width, pz.height, pz.direction), pz.zoom)
PanRoomAfter == AvailAfter(PanAxisSize(pz.width, pz.height, pz.direction), pz.zoom)
PanUsed == CHOOSE d \in pz.pan : TRUE
PanRequested ==
    (PanAxisSize(pz.width, pz.height, pz.direction) * pz.ratio) \div 100

\* C9: for every canvas, zoom >= 1 and ratio in [0, 1] the pan distance is
\* min(requested, min(avail_before, avail_after)); only when the minimum
\* available room is zero is it forced to one pixel
C9_PanDistanceIsMin ==
    PanStarted =>
        PanUsed = IF Min(PanRoomBefore, PanRoomAfter) = 0 THEN 1
                  ELSE Min(PanRequested, Min(PanRoomBefore, PanRoomAfter))

DefaultPanOnPreset ==
    /\ PanStarted
    /\ pz.zoom = DEFAULT_ZOOM_LEVEL
    /\ pz.ratio = DEFAULT_PAN_DISTANCE_RATIO
    /\ [width |-> pz.width, height |-> pz.height] \in PresetCanvases

\* C10: at ratio 0.15 and zoom 1.1 on a preset canvas the pan distance never
\* exceeds the room on either side of the centred crop along the pan axis,
\* and on every frame the crop position is the one computed, not clamped
C10_DefaultPanNeverClamped ==
    DefaultPanOnPreset =>
        /\ PanUsed <= PanRoomBefore
        /\ PanUsed <= PanRoomAfter
        /\ \A f \in 1 .. Len(crops) :
              /\ crops[f].crop = crops[f].raw
              /\ crops[f].crop.x \in 0 .. ZoomedSize(pz.width, pz.zoom) - pz.width
              /\ crops[f].crop.y \in 0 .. ZoomedSize(pz.height, pz.zoom) - pz.height

\* C10 witness: the 1080 x 1920 canvas panned up over 6 frames, from the full
\* pan distance above the centre to the centre
C10_Witness ==
    /\ DefaultPanOnPreset
    /\ pz.width = 1080 /\ pz.height = 1920
    /\ pz.direction = "up"
    /\ Len(crops) = 6
    /\ crops[1].crop.y = CenterOffset(1920, 110) - PanUsed
    /\ crops[1].crop.y < crops[6].crop.y
    /\ crops[6].crop.y = CenterOffset(1920, 110)

\* the direction opposite to a direction
Opposite(direction) ==
    CASE direction = "up" -> "down"
      [] direction = "down" -> "up"
      [] direction = "left" -> "right"
      [] direction = "right" -> "left"

\* the offset applied on frame f (counted from 0) for a direction: the crop
\* position after the bounds check minus the centred position
AppliedOffset(direction, f) ==
    LET crop == CropAt(pz.width, pz.height, pz.zoom, pz.ratio, direction, f,
                       PanTotalFrames(pz.duration, pz.fps))
    IN  [x |-> crop.x - CenterOffset(pz.width, pz.zoom),
         y |-> crop.y - CenterOffset(pz.height, pz.zoom)]

\* C11: for the same canvas, zoom, ratio and duration, on every frame the
\* offset applied for a direction (after the bounds check) is the exact
\* negation of the offset applied for the opposite direction
C11_OppositeDirectionsNegate ==
    PanStarted =>
        \A f \in 1 .. Len(crops) :
            LET mine == [x |-> crops[f].crop.x - CenterOffset(pz.width, pz.zoom),
                         y |-> crops[f].crop.y - CenterOffset(pz.height, pz.zoom)]
                other == AppliedOffset(Opposite(pz.direction), f - 1)
            IN  mine.x = 0 - other.x /\ mine.y = 0 - other.y

---------------------------------------------------------------------------
(* Claims about _get_current_segment (SpecCaption) *)

\* a caption track as the data model has it: time-ascending, non-overlapping
TimeAscending(segs) ==
    /\ \A i \in 1 .. Len(segs) : segs[i].start <= segs[i].end
    /\ \A i \in 1 .. Len(segs) - 1 : segs[i].end <= segs[i + 1].start

ExampleTrack ==
    <<[text |-> "a", start |-> 0, end |-> 5],
      [text |-> "b", start |-> 5, end |-> 12]>>

\* C12: on a time-ascending track the active segment is the one whose
\* half-open interval [start, end) contains t (t equal to a segment's end is
\* not in it); at or after the last segment's end the last segment stays
\* active; before the first segment's start there is no active text; on the
\* track (a, 0.0, 0.5), (b, 0.5, 1.2): 0.3 -> a, 0.5 -> b, 5.0 -> b, -1.0 -> none
C12_HalfOpenStickyLookup ==
    /\ (cap_pc = "returned" /\ TimeAscending(segments)) =>
          /\ \A i \in 1 .. Len(segments) :
                (segments[i].start <= t_sec /\ t_sec < segments[i].end)
                    => /\ current.current_index = {i - 1}
                       /\ current.current_text = segments[i].text
          /\ (segments # <<>> /\ t_sec >= segments[Len(segments)].end)
                => /\ current.current_index = {Len(segments) - 1}
                   /\ current.current_text = segments[Len(segments)].text
          /\ (segments # <<>> /\ t_sec < segments[1].start)
                => /\ current.current_index = {}
                   /\ current.current_text = "None"
    /\ GetCurrentSegment(3, ExampleTrack).current_text = "a"
    /\ GetCurrentSegment(5, ExampleTrack).current_text = "b"
    /\ GetCurrentSegment(5, ExampleTrack).current_index = {1}
    /\ GetCurrentSegment(50, ExampleTrack).current_text = "b"
    /\ GetCurrentSegment(0 - 10, ExampleTrack).current_text = "None"

\* C12 witness: two adjoining segments and t on their common boundary: the
\* lookup returned the second
C12_Witness ==
    /\ cap_pc = "returned"
    /\ Len(segments) = 2
    /\ TimeAscending(segments)
    /\ segments[1].start < segments[1].end
    /\ segments[1].end = segments[2].start
    /\ segments[2].start < segments[2].end
    /\ t_sec = segments[1].end
    /\ current.current_index = {1}

---------------------------------------------------------------------------
(* Claims about alignment_to_word_segments (SpecAlign) *)

\* the maximal runs of consecutive non-blank characters, as <<first, last>>
MaximalRuns(characters) ==
    {r \in (1 .. Len(characters)) \X (1 .. Len(characters)) :
        /\ r[1] <= r[2]
        /\ \A i \in r[1] .. r[2] : ~IsBlank(characters[i])
        /\ (r[1] = 1 \/ IsBlank(characters[r[1] - 1]))
        /\ (r[2] = Len(characters) \/ IsBlank(characters[r[2] + 1]))}

\* the text claimed for the run first .. last: the run's characters, or,
\* when displayed, the supplied text of the same length at these positions
RunText(first, last, displayed) ==
    IF displayed /\ UseText(alignment.characters, alignment.text)
    THEN SubSeq(CHOOSE t \in alignment.text : TRUE, first, last)
    ELSE SubSeq(alignment.characters, first, last)

\* one segment per maximal run, in input order, with the times of the run's
\* first and last character and the text claimed for the run
SegmentsMatchRuns(displayed) ==
    LET runs == MaximalRuns(alignment.characters)
    IN  /\ Len(word_segments) = Cardinality(runs)
        /\ \A r \in runs : \E k \in 1 .. Len(word_segments) :
              /\ word_segments[k].start =
                     alignment.character_start_times_seconds[r[1]]
              /\ word_segments[k].end =
                     alignment.character_end_times_seconds[r[2]]
              /\ word_segments[k].text = RunText(r[1], r[2], displayed)
        /\ \A k \in 1 .. Len(word_segments) - 1 :
              word_segments[k].end < word_segments[k + 1].start

NoBlankInSegments ==
    \A k \in 1 .. Len(word_segments) :
        \A i \in 1 .. Len(word_segments[k].text) :
            ~IsBlank(word_segments[k].text[i])

\* C13 as stated: one segment per maximal run of non-whitespace characters,
\* in input order; its text is the concatenation of the run's characters,
\* its times those of the run's first and last character; whitespace appears
\* in no segment
C13_SegmentTextIsRunCharacters ==
    align_pc = "returned" =>
        SegmentsMatchRuns(FALSE) /\ NoBlankInSegments

\* C13 amended: one segment per maximal run, in input order, with the times
\* of the run's first and last character; its text is the concatenation of
\* the run's characters, or, when a text as long as the character list is
\* supplied, that text between the run's first and last position; without
\* such a text whitespace appears in no segment; h,i,space,y,o,u gives
\* (hi, t0, t1), (you, t2, t3)
C13_SegmentPerRun ==
    /\ align_pc = "returned" =>
          /\ SegmentsMatchRuns(TRUE)
          /\ (~UseText(alignment.characters, alignment.text)
                => NoBlankInSegments)
    /\ WordSegmentsFrom(<<"h", "i", " ", "y", "o", "u">>,
                        <<0, 1, 2, 3, 4, 5>>, <<1, 2, 3, 4, 5, 6>>, {}, 1)
          = <<[text |-> <<"h", "i">>, start |-> 0, end |-> 2],
              [text |-> <<"y", "o", "u">>, start |-> 3, end |-> 6]>>

\* C13 witness: two runs separated by a blank, no text supplied, converted
\* into two segments
C13_Witness ==
    /\ align_pc = "returned"
    /\ alignment.characters = <<"h", "y", " ", "h">>
    /\ alignment.text = {}
    /\ Len(word_segments) = 2
    /\ word_segments[1].text = <<"h", "y">>
    /\ word_segments[2].start = 8

---------------------------------------------------------------------------
(* Claims about _calculate_cursor_alpha (SpecCursorAlpha) *)

AlphaIsZero(alpha) == alpha.num = 0
AlphaIsOne(alpha) == alpha.num = alpha.den

\* a clip long enough to hold the whole fade-in and the whole fade-out,
\* all its frames done
LongClipDone ==
    /\ reveal_frames > CURSOR_FADE_IN_FRAMES + CURSOR_FADE_OUT_FRAMES
    /\ cursor_frame_idx = reveal_frames

\* C14: with fade_in = fade_out = 20 the cursor alpha multiplier is 0.0 at
\* frame 0, 1.0 at frame 20 and 0.0 at the last frame of the clip
C14_FadeEndpoints ==
    LongClipDone =>
        /\ AlphaIsZero(cursor_alphas[1])
        /\ AlphaIsOne(cursor_alphas[CURSOR_FADE_IN_FRAMES + 1])
        /\ AlphaIsZero(cursor_alphas[reveal_frames])

---------------------------------------------------------------------------
(* Claims about _draw_cursor_on_frame (SpecDraw) *)

\* the pixels of the frame inside the cursor's box, centre +- size // 2
BoxOnCanvas ==
    LET half == draw_args.pencil_cursor_size \div 2
    IN  {p \in DrawPixels :
            /\ draw_args.cursor_x - half <= p[1]
            /\ p[1] <= draw_args.cursor_x + half
            /\ draw_args.cursor_y - half <= p[2]
            /\ p[2] <= draw_args.cursor_y + half}

ChangedPixels == {p \in DrawPixels : frame[p] # InitialPixel(p[1], p[2])}

\* C15: _draw_cursor_on_frame changes only pixels inside the intersection of
\* the frame with the cursor's box; every pixel outside it is unchanged, and
\* when the box does not meet the frame the frame is left as it was and the
\* call returns normally
C15_DrawOnlyInsideBox ==
    /\ draw_pc = "returned" => ChangedPixels \subseteq BoxOnCanvas
    /\ draw_pc \in {"call", "returned"}
    /\ DrawCursorOnFrame([p \in DrawPixels |-> InitialPixel(p[1], p[2])],
                         0 - 200, 0 - 200, 3, 3, [num |-> 1, den |-> 1])
          = [p \in DrawPixels |-> InitialPixel(p[1], p[2])]

\* C15 witness: a cursor across the top left corner, drawn: the corner pixel
\* changed, its neighbours did not
C15_Witness ==
    /\ draw_pc = "returned"
    /\ draw_args.cursor_x = 0 /\ draw_args.cursor_y = 0
    /\ draw_args.pencil_cursor_size = 2
    /\ ChangedPixels = {<<0, 0>>}

---------------------------------------------------------------------------
(* Claims about create_diagonal_reveal_mask (SpecMask) *)

MaskPixels == (0 .. mask_args.width - 1) \X (0 .. mask_args.height - 1)

\* the pixel is on the line through the cursor perpendicular to the diagonal
\* or behind it: for 0 degrees at or left of the cursor, for 90 degrees at
\* or above it, for 45 degrees at or above the anti-diagonal through it
BehindCursor(x, y) ==
    CASE mask_args.angle_deg = 0 -> x <= mask_args.cursor_x
      [] mask_args.angle_deg = 90 -> y <= mask_args.cursor_y
      [] mask_args.angle_deg = 45 ->
            x + y <= mask_args.cursor_x + mask_args.cursor_y

---------------------------------------------------------------------------
(* Claims about generate_diagonal_zigzag_path (SpecPath) *)

\* C17: any two calls with identical arguments have the same outcome and
\* return identical paths, whatever calls and whatever other uses of the
\* random generator happened before or between them
C17_PathDeterministic ==
    \A i, j \in 1 .. Len(path_calls) :
        path_calls[i].args = path_calls[j].args
            => /\ path_calls[i].outcome = path_calls[j].outcome
               /\ path_calls[i].path = path_calls[j].path

\* C17 witness: two calls with the same arguments, started from different
\* generator states, both returning the same path of 15 positions
C17_Witness ==
    \E i, j \in 1 .. Len(path_calls) :
        /\ i < j
        /\ path_calls[i].args = path_calls[j].args
        /\ path_calls[i].rng_before # path_calls[j].rng_before
        /\ path_calls[j].rng_before # SeedState(PathSeed)
        /\ path_calls[i].outcome = "returned"
        /\ Len(path_calls[i].path) = SmoothingWindow
        /\ path_calls[i].path = path_calls[j].path

\* C18: for every duration >= 0, durations that give no frame or fewer
\* frames than the smoothing window included, the call returns exactly
\* round(duration * fps) positions, as many as the reveal frames that
\* create_single_reveal_animation iterates over
C18_PathLengthIsFrameCount ==
    \A i \in 1 .. Len(path_calls) :
        LET c == path_calls[i]
        IN  /\ c.outcome = "returned"
            /\ Len(c.path)
                  = PyRound(c.args.reveal_duration * c.args.fps, TicksPerSecond)
            /\ c.args.fps = FPS
                  => Len(c.path) = RevealFrames(c.args.reveal_duration)

---------------------------------------------------------------------------
(* Claims about input validation (SpecRun) *)

\* C19: when the run is aborted by an input validation error (an image
\* reference that is missing, an invalid type or direction at any entry, an
\* invalid ratio, quality or volume), no frame of any entry has been
\* synthesized
C19_AbortBeforeSynthesis ==
    run_pc = "aborted" => run_synth = {}

---------------------------------------------------------------------------
(* Claims about the transcode and upload steps (Spec) *)

TranscodeFailures == TranscodeOutcomes \ {"ok"}
UploadFailures == UploadOutcomes \ {"ok"}

\* C20: a failed transcode step leaves the untranscoded video under the
\* output name and no '.tmp.mp4' file, and the run goes on (it is not
\* aborted unless a later audio mux fails); a failed upload leaves the
\* local video in place and the function returns with no URL
C20_TranscodeAndUploadFailuresNonFatal ==
    /\ transcode_outcome \in TranscodeFailures =>
          /\ files["tmp"] = "none"
          /\ mux_outcome = "none" =>
                /\ pc \in {"mux", "upload", "returned"}
                /\ files["out"] = "raw"
    /\ upload_outcome \in UploadFailures =>
          /\ pc = "returned"
          /\ s3_url = "None"
          /\ Playable(files["out"])
          /\ transcode_outcome \in TranscodeFailures /\ mux_outcome = "none"
                => files["out"] = "raw"

\* C20 witness: the transcoder failed leaving a partial temp output, then
\* the upload failed, and the function has returned
C20_Witness ==
    /\ pc = "returned"
    /\ transcode_outcome = "tool_error_partial"
    /\ upload_outcome = "network_error"
    /\ Len(encoded) > 0
    /\ files["out"] = "raw"
    /\ files["tmp"] = "none"
    /\ s3_url = "None"

---------------------------------------------------------------------------
(* Claims about decode errors (Spec) *)

\* the run was aborted inside the loop over the entries, which only a failed
\* load_and_resize_image does
DecodeFailed == pc = "raised" /\ idx < Len(image_configs)

NoOutputWritten ==
    /\ ~writer_open
    /\ encoded = <<>>
    /\ \A n \in FileNames : files[n] = "none"
    /\ transcode_outcome = "none" /\ mux_outcome = "none"
    /\ upload_outcome = "none" /\ s3_url = "None"

\* C21: once the image of an entry has failed to decode, at whatever index,
\* the run stays aborted at that entry for good (nothing is retried, no
\* further entry is rendered), the video writer is never opened and no
\* output file is written
C21_DecodeErrorAborts ==
    [][DecodeFailed =>
          /\ NoOutputWritten
          /\ DecodeFailed' /\ NoOutputWritten'
          /\ idx' = idx /\ all_frames' = all_frames]_vars

\* C21 witness: the decode failed at the second entry or later, after
\* frames of an earlier scene were rendered, and the cleanup has run
C21_Witness ==
    /\ DecodeFailed
    /\ idx >= 1
    /\ all_frames # <<>>
    /\ exited
    /\ NoOutputWritten

---------------------------------------------------------------------------
(* Claims about the progress of a pan-zoom clip (SpecPan) *)

PanClipFrames == PanTotalFrames(pz.duration, pz.fps)

\* int(offset_x), int(offset_y) of the i-th frame generated: the crop
\* position before the bounds check, less the centre
FrameOffset(i) ==
    [x |-> crops[i].raw.x - CenterOffset(pz.width, pz.zoom),
     y |-> crops[i].raw.y - CenterOffset(pz.height, pz.zoom)]

\* the offset along the pan axis, counted positive towards the extreme the
\* clip starts from
TowardsStart(i) ==
    CASE pz.direction = "up" -> 0 - FrameOffset(i).y
      [] pz.direction = "down" -> FrameOffset(i).y
      [] pz.direction = "left" -> 0 - FrameOffset(i).x
      [] pz.direction = "right" -> FrameOffset(i).x

AcrossOffset(i) ==
    IF Vertical(pz.direction) THEN FrameOffset(i).x ELSE FrameOffset(i).y

\* C22: the offset is -pan_distance ("up", "left") or +pan_distance ("down",
\* "right") on the first frame and 0 on the last frame of a clip of two or
\* more frames, it lies on the pan axis alone, its magnitude never increases
\* from one frame to the next, and the single frame of a one-frame clip
\* sits at the pan extreme
C22_LinearProgressToZero ==
    PanStarted =>
        \A i \in 1 .. Len(crops) :
            /\ AcrossOffset(i) = 0
            /\ TowardsStart(i) >= 0
            /\ i = 1 => TowardsStart(i) = PanUsed
            /\ (i = PanClipFrames /\ PanClipFrames > 1) => TowardsStart(i) = 0
            /\ i > 1 => TowardsStart(i) <= TowardsStart(i - 1)

\* C22 witness: a finished "up" clip of three or more frames whose offset
\* went from -pan_distance through a value in between to 0
C22_Witness ==
    /\ PanStarted
    /\ pz.direction = "up"
    /\ PanClipFrames >= 3
    /\ Len(crops) = PanClipFrames
    /\ FrameOffset(1).y = 0 - PanUsed
    /\ FrameOffset(2).y < 0 /\ FrameOffset(2).y > 0 - PanUsed
    /\ FrameOffset(PanClipFrames).y = 0

\* C23: for every frame of every path the smoothed amplitude variation lies
\* in [0.8, 1.2] (the model keeps it as the moving sum, the window size
\* times the average, in percent)
C23_VariationInRange ==
    \A i \in 1 .. Len(path_calls) :
        \A p \in 1 .. Len(path_calls[i].path) :
            /\ path_calls[i].path[p].variation >= 80 * SmoothingWindow
            /\ path_calls[i].path[p].variation <= 120 * SmoothingWindow

---------------------------------------------------------------------------
(* Claims about the frames of a scene entry (SpecScene) *)

\* C24: a scene entry contributes exactly as many frames as its full
\* duration, seconds * fps rounded to a frame count (truncated or rounded to
\* the nearest), whatever its seconds: the split into the reveal half and
\* the hold half loses no frame
C24_SplitLosesNoFrame ==
    scene_pc = "rendered" =>
        Len(scene_frames) \in
            {IntTrunc(scene_seconds * FPS, TicksPerSecond),
             PyRound(scene_seconds * FPS, TicksPerSecond)}

---------------------------------------------------------------------------
(* Claims about load_captions (SpecLoad) *)

\* a flat array of objects that each have text, start and end
IsSegmentArray(data) ==
    /\ data.kind = "list"
    /\ \A i \in 1 .. Len(data.items) :
          /\ data.items[i].object
          /\ data.items[i].text # {}
          /\ data.items[i].start # {} /\ data.items[i].end # {}

\* an object whose alignment (or, failing that, normalized_alignment) holds
\* three arrays of one length
IsAlignmentObject(data) ==
    /\ data.kind = "dict"
    /\ \E align \in {data.alignment, data.normalized_alignment} :
          /\ align = AlignmentOf(data)
          /\ align.kind = "dict"
          /\ \E n \in 0 .. MaxLoadLen + 1 :
                /\ \E c \in align.characters : Len(c) = n
                /\ \E s \in align.character_start_times_seconds : Len(s) = n
                /\ \E e \in align.character_end_times_seconds : Len(e) = n

\* C25: a flat array of {text, start, end} objects and a character
\* alignment object are both turned into segments (one per item, one per
\* word); for a value of neither shape the call raises and returns no
\* segment
C25_LoadsBothShapesElseRaises ==
    load_pc # "call" =>
        IF IsSegmentArray(caption_data)
        THEN /\ load_pc = "returned"
             /\ Len(loaded) = Len(caption_data.items)
        ELSE IF IsAlignmentObject(caption_data)
             THEN load_pc = "returned"
        ELSE load_pc = "raised" /\ loaded = <<>>

---------------------------------------------------------------------------
(* Claims about the buffers of the frames (SpecBuffers) *)

\* C26: the source image buffer is never modified, every frame of the list
\* returned is a buffer of its own, and an in-place write to one frame shows
\* in that frame alone
C26_FramesOwnTheirBuffers ==
    /\ heap[SourceBuffer] = SourceContent
    /\ buf_pc = "returned" =>
          /\ \A i \in 1 .. Len(frame_refs) : frame_refs[i] # SourceBuffer
          /\ \A i, j \in 1 .. Len(frame_refs) :
                i # j => frame_refs[i] # frame_refs[j]
          /\ \A i \in 1 .. Len(frame_refs) :
                "caption" \in heap[frame_refs[i]] <=> i \in written

\* C26 witness: a reveal animation with reveal and hold frames, one hold
\* frame written in place, another hold frame and a reveal frame not
C26_Witness ==
    /\ buf_pc = "returned"
    /\ buf_args.fn = "reveal"
    /\ buf_args.reveal >= 1 /\ buf_args.rest >= 2
    /\ written = {Len(frame_refs)}
    /\ "caption" \in heap[frame_refs[Len(frame_refs)]]
    /\ "caption" \notin heap[frame_refs[Len(frame_refs) - 1]]
    /\ "cursor" \in heap[frame_refs[1]]

---------------------------------------------------------------------------
(* Claims about the sprite region of the cursor (SpecDraw) *)

\* the cursor's box, centre -/+ size \div 2, has a pixel on the canvas
BoxOverlapsCanvas ==
    LET h == draw_args.pencil_cursor_size \div 2
    IN  /\ \E x \in 0 .. DrawWidth - 1 :
              draw_args.cursor_x - h <= x /\ x < draw_args.cursor_x + h
        /\ \E y \in 0 .. DrawHeight - 1 :
              draw_args.cursor_y - h <= y /\ y < draw_args.cursor_y + h

\* C30: when the cursor's box overlaps the canvas and the sprite is
\* cursor_size x cursor_size, the sprite sub-region has the height and width
\* of the frame region, and the cursor is composited: every pixel of the
\* frame region holds the blend
C30_PartialCursorComposited ==
    (draw_pc = "returned" /\ draw_args.side_offset = 0 /\ BoxOverlapsCanvas) =>
        LET size == draw_args.pencil_cursor_size
            b == FrameBounds(draw_args.cursor_x, draw_args.cursor_y, size)
            c == CursorBounds(draw_args.cursor_x, draw_args.cursor_y, size)
        IN  /\ SliceLen(c.cy1, c.cy2, size) = b.y2 - b.y1
            /\ SliceLen(c.cx1, c.cx2, size) = b.x2 - b.x1
            /\ \A p \in DrawPixels :
                  (b.x1 <= p[1] /\ p[1] < b.x2 /\ b.y1 <= p[2] /\ p[2] < b.y2)
                  => frame[p] = Blend(InitialPixel(p[1], p[2]),
                                      draw_args.alpha_multiplier)

\* C30 witness: an odd-sized cursor clipped at the right and the bottom of
\* the canvas, drawn at full opacity: the last pixel holds the sprite colour
C30_Witness ==
    /\ draw_pc = "returned"
    /\ draw_args.side_offset = 0
    /\ draw_args.pencil_cursor_size = 3
    /\ draw_args.cursor_x = DrawWidth /\ draw_args.cursor_y = DrawHeight
    /\ draw_args.alpha_multiplier = [num |-> 1, den |-> 1]
    /\ BoxOverlapsCanvas
    /\ frame[<<DrawWidth - 1, DrawHeight - 1>>] = SpriteColour
    /\ frame[<<0, 0>>] = InitialPixel(0, 0)

---------------------------------------------------------------------------
(* Claims about the range of the cursor's opacity (SpecCursorAlpha) *)

\* C29: for every total_frames >= 1 and every frame index below it, clips
\* shorter than the fade windows included, the alpha multiplier is in
\* [0.0, 1.0]
C29_AlphaInUnitRange ==
    \A i \in 1 .. Len(cursor_alphas) :
        /\ cursor_alphas[i].den > 0
        /\ 0 <= cursor_alphas[i].num
        /\ cursor_alphas[i].num <= cursor_alphas[i].den

\* C29 witness: a clip of 30 frames, shorter than the two windows together,
\* all its frames done: frame 15 is in both windows and fades in, frame 20
\* is already fading out at one half, the last frame is at one twentieth
C29_Witness ==
    /\ reveal_frames = CURSOR_FADE_IN_FRAMES + CURSOR_FADE_OUT_FRAMES - 10
    /\ cursor_frame_idx = reveal_frames
    /\ cursor_alphas[16] = [num |-> 15, den |-> CURSOR_FADE_IN_FRAMES]
    /\ cursor_alphas[reveal_frames] = [num |-> 1, den |-> CURSOR_FADE_OUT_FRAMES]
    /\ cursor_alphas[21] = [num |-> 10, den |-> CURSOR_FADE_OUT_FRAMES]

---------------------------------------------------------------------------
(* Claims about the order of the steps after the synthesis (Spec) *)

FramesWritten ==
    /\ pc \notin {"synth", "write", "writing"}
    /\ ~writer_open
    /\ Len(encoded) = Len(all_frames)
TranscodeAttempted == transcode_outcome # "none"
MuxAttempted == mux_outcome # "none"
MuxReturned == MuxAttempted /\ files["out"] = "muxed"
UploadAttempted == upload_arg # "none"

\* C28: the steps run in the order write frames, transcode attempt, mux (if
\* audio is given), upload (if requested); with audio the upload is attempted
\* only after the mux has returned, on the path the mux returned, and never
\* after the mux raised
C28_PostStepsInOrder ==
    /\ TranscodeAttempted => FramesWritten
    /\ MuxAttempted => TranscodeAttempted
    /\ UploadAttempted =>
          /\ TranscodeAttempted
          /\ pc = "returned"
          /\ MuxAttempted => MuxReturned /\ upload_arg = "final_video"
          /\ ~MuxAttempted => upload_arg = "resolved"
    /\ (MuxAttempted /\ ~MuxReturned) =>
          /\ ~UploadAttempted
          /\ upload_outcome = "none" /\ s3_url = "None"
          /\ pc = "raised"
    /\ upload_outcome # "none" => UploadAttempted

\* C28 witness: the transcode was attempted and failed, the mux returned,
\* the upload was given the path of the mux and returned a URL
C28_Witness ==
    /\ pc = "returned"
    /\ Len(encoded) > 0
    /\ transcode_outcome = "tool_error"
    /\ mux_outcome = "ok"
    /\ upload_arg = "final_video"
    /\ s3_url = "url"

---------------------------------------------------------------------------
(* Claims about the progress of the wipe (SpecWipe) *)

\* the pixels of the border of the canvas, which every line of the wipe that
\* crosses the canvas meets
BorderPixels ==
    ((0 .. wipe_args.width - 1) \X {0, wipe_args.height - 1})
    \cup ({0, wipe_args.width - 1} \X (0 .. wipe_args.height - 1))

\* the mask value of a pixel for a cursor
MaskAt(p, cursor) ==
    MaskValue(Projection(p[1], p[2], cursor.x, cursor.y, wipe_args.angle_deg))

\* C27: during the reveal the revealed region never shrinks: a pixel whose
\* mask is 255 at a frame is 255 at the next frame (read on the border of
\* the canvas)
C27_RevealNeverShrinks ==
    \A before \in wipe_prev : \A now \in wipe_cursor :
        \A p \in BorderPixels :
            MaskAt(p, before) = 255 => MaskAt(p, now) = 255

===========================================================================
